---- MODULE Spec2Model ----
(***************************************************************************)
(* A model of the AgentCOBRA privacy suite: the customer preference store  *)
(* (customer_loader.py), the per-subsystem settings resolvers, the         *)
(* generators as far as their shape and their failures go, and the         *)
(* profile composer (main_demo.py).                                        *)
(*                                                                         *)
(* A Python dict is a function from its keys to its values; a Python list  *)
(* is a sequence.  A value returned by a method is recorded in `last`,     *)
(* together with the method's name and arguments.                          *)
(***************************************************************************)
EXTENDS Integers, Sequences, FiniteSets, TLC

VARIABLES
    disk,       \* the content of the file named by self.data_file
    customers,  \* CustomerDataLoader.customers: customer id -> record
    order,      \* insertion order of the keys of self.customers
    last,       \* the last completed call: its name, arguments and result
    nUpdates,   \* number of update_customer calls made so far (bounded)
    th          \* the threads of the concurrent scenario (idle otherwise)

vars == <<disk, customers, order, last, nUpdates, th>>

-----------------------------------------------------------------------------
(* Bounds *)

MaxUpdates == 2

-----------------------------------------------------------------------------
(* Python dict helpers *)

EmptyDict == [x \in {} |-> TRUE]

\* dict.get(key, default)
DictGet(d, k, default) == IF k \in DOMAIN d THEN d[k] ELSE default

\* dict.update(other), as a value
DictUpdate(d, u) ==
    [f \in (DOMAIN d) \cup (DOMAIN u) |-> IF f \in DOMAIN u THEN u[f] ELSE d[f]]

\* d[k] = v
DictSet(d, k, v) == [f \in (DOMAIN d) \cup {k} |-> IF f = k THEN v ELSE d[f]]

SeqToSet(s) == {s[i] : i \in 1..Len(s)}

-----------------------------------------------------------------------------
(* The data the model runs on *)

Ids == {"CUST_001", "CUST_002", "ZZZ"}

FullRecord ==
    [customer_id |-> "CUST_001", name |-> "Alice",
     privacy_level |-> "maximum", service_tier |-> "enterprise",
     device_types |-> <<"smartphone", "laptop">>,
     preferred_cities |-> <<"Boston", "Atlantis">>,
     location_obfuscation |-> TRUE, communication_encryption |-> TRUE,
     biometric_protection |-> TRUE, identity_multiplication_count |-> 2]

LowRecord ==
    [customer_id |-> "CUST_002", name |-> "Bob",
     privacy_level |-> "low", service_tier |-> "basic",
     device_types |-> <<"smartwatch">>,
     preferred_cities |-> <<"Chicago">>,
     location_obfuscation |-> FALSE, communication_encryption |-> TRUE,
     biometric_protection |-> TRUE, identity_multiplication_count |-> 1]

\* a record holding nothing but its key
SparseRecord(id) == [customer_id |-> id]

\* a later entry of the file with the key of FullRecord
DuplicateRecord ==
    [customer_id |-> "CUST_001", name |-> "Alice II", privacy_level |-> "medium"]

\* an entry of the file without the 'customer_id' key
KeylessRecord == [name |-> "Nobody"]

File(kind, recs) == [kind |-> kind, customers |-> recs]

\* kind: "missing"   no such file
\*       "malformed" not JSON (also: a partially written file)
\*       "array"     JSON whose top level is not an object
\*       "nokey"     a JSON object without the 'customers' key
\*       "object"    a JSON object with a 'customers' list
InitialFiles ==
    { File("missing", <<>>), File("malformed", <<>>), File("array", <<>>),
      File("nokey", <<>>),
      File("object", <<>>),
      File("object", <<FullRecord, LowRecord>>),
      File("object", <<SparseRecord("CUST_002"), FullRecord, DuplicateRecord>>),
      File("object", <<LowRecord, KeylessRecord>>) }

\* the `updates` arguments of update_customer
UpdateSets ==
    { [privacy_level |-> "high"],
      [privacy_level |-> "ultra", service_tier |-> "premium"],
      [biometric_protection |-> FALSE, communication_encryption |-> FALSE,
       location_obfuscation |-> FALSE],
      [device_types |-> <<"laptop", "toaster", "laptop">>,
       identity_multiplication_count |-> 0, preferred_cities |-> <<>>],
      [customer_id |-> "CUST_009", name |-> "Carol"] }

\* what the file system does to a write
IoOutcomes == {"ok", "open_error", "write_error"}

-----------------------------------------------------------------------------
(* customer_loader.py *)

RECURSIVE LoadLoop(_, _, _, _)
\* the for loop of load_customer_data over data.get('customers', []), from
\* entry i on; a missing 'customer_id' raises KeyError
LoadLoop(cs, ord, recs, i) ==
    IF i > Len(recs) THEN [raised |-> FALSE, customers |-> cs, order |-> ord]
    ELSE IF "customer_id" \notin DOMAIN recs[i]
         THEN [raised |-> TRUE, customers |-> cs, order |-> ord]
         ELSE LET id == recs[i]["customer_id"]
              IN  LoadLoop(DictSet(cs, id, recs[i]),
                           IF id \in DOMAIN cs THEN ord ELSE Append(ord, id),
                           recs, i + 1)

\* load_customer_data whose handlers do not reset self.customers
load_customer_data_keeping(cs, ord, d) ==
    IF d.kind \in {"missing", "malformed", "array"}
    THEN [customers |-> cs, order |-> ord, warned |-> TRUE]
    ELSE LET r == LoadLoop(cs, ord, IF d.kind = "object" THEN d.customers ELSE <<>>, 1)
         IN  [customers |-> r.customers, order |-> r.order, warned |-> r.raised]

\* load_customer_data on a store holding cs (keys in order ord), file d
load_customer_data(cs, ord, d) ==
    IF d.kind = "missing"
    THEN [customers |-> EmptyDict, order |-> <<>>, warned |-> TRUE]
    ELSE IF d.kind \in {"malformed", "array"}
    THEN [customers |-> EmptyDict, order |-> <<>>, warned |-> TRUE]
    ELSE LET r == LoadLoop(cs, ord, IF d.kind = "object" THEN d.customers ELSE <<>>, 1)
         IN  IF r.raised
             THEN [customers |-> EmptyDict, order |-> <<>>, warned |-> TRUE]
             ELSE [customers |-> r.customers, order |-> r.order, warned |-> FALSE]

\* CustomerDataLoader(data_file): self.customers = {} and then the load
CustomerDataLoader(d) == load_customer_data(EmptyDict, <<>>, d)

\* get_customer written as self.customers.get(customer_id, {})
get_customer_or_empty(cs, id) ==
    IF id \in DOMAIN cs THEN [found |-> TRUE, rec |-> cs[id]]
    ELSE [found |-> TRUE, rec |-> EmptyDict]

\* get_customer: None is [found |-> FALSE]
get_customer(cs, id) ==
    IF id \in DOMAIN cs THEN [found |-> TRUE, rec |-> cs[id]]
    ELSE [found |-> FALSE]

\* `not customer` for an Optional[Dict]: None and the empty dict are falsy
NotCustomer(c) == (~c.found) \/ (DOMAIN c.rec = {})

get_all_customers(cs, ord) == [i \in 1..Len(ord) |-> cs[ord[i]]]

\* get_customers_by_privacy_level: the records whose tier is the one asked for
get_customers_by_privacy_level(cs, ord, privacy_level) ==
    LET Matches(customer) ==
            /\ "privacy_level" \in DOMAIN customer
            /\ customer["privacy_level"] = privacy_level
    IN  SelectSeq(get_all_customers(cs, ord), Matches)

\* get_customers_with_service: the records whose field service_name is true
get_customers_with_service(cs, ord, service_name) ==
    LET Enabled(customer) == DictGet(customer, service_name, FALSE) = TRUE
    IN  SelectSeq(get_all_customers(cs, ord), Enabled)

\* get_customer_preferences with another default for service_tier
get_customer_preferences_basic_tier(cs, id) ==
    LET c == get_customer(cs, id)
    IN  IF NotCustomer(c) THEN EmptyDict
        ELSE [privacy_level |-> DictGet(c.rec, "privacy_level", "medium"),
              location_obfuscation |-> DictGet(c.rec, "location_obfuscation", TRUE),
              identity_count |-> DictGet(c.rec, "identity_multiplication_count", 25),
              device_types |-> DictGet(c.rec, "device_types", <<"smartphone">>),
              preferred_cities |->
                  DictGet(c.rec, "preferred_cities", <<"New York", "Los Angeles">>),
              encryption_enabled |-> DictGet(c.rec, "communication_encryption", TRUE),
              biometric_protection |-> DictGet(c.rec, "biometric_protection", TRUE),
              service_tier |-> DictGet(c.rec, "service_tier", "basic")]

get_customer_preferences(cs, id) ==
    LET c == get_customer(cs, id)
    IN  IF NotCustomer(c) THEN EmptyDict
        ELSE [privacy_level |-> DictGet(c.rec, "privacy_level", "medium"),
              location_obfuscation |-> DictGet(c.rec, "location_obfuscation", TRUE),
              identity_count |-> DictGet(c.rec, "identity_multiplication_count", 25),
              device_types |-> DictGet(c.rec, "device_types", <<"smartphone">>),
              preferred_cities |->
                  DictGet(c.rec, "preferred_cities", <<"New York", "Los Angeles">>),
              encryption_enabled |-> DictGet(c.rec, "communication_encryption", TRUE),
              biometric_protection |-> DictGet(c.rec, "biometric_protection", TRUE),
              service_tier |-> DictGet(c.rec, "service_tier", "standard")]

\* save_customer_data: the file after the call; every exception is caught
save_customer_data(cs, ord, d, io) ==
    IF io = "open_error" THEN d
    ELSE IF io = "write_error" THEN File("malformed", <<>>)
    ELSE File("object", get_all_customers(cs, ord))

\* the merge written as self.customers[customer_id] = updates
ReplaceByUpdates(cs, id, updates) ==
    [k \in DOMAIN cs |-> IF k = id THEN updates ELSE cs[k]]

\* the merge of update_customer: self.customers[customer_id].update(updates)
MergeUpdates(cs, id, updates) ==
    [k \in DOMAIN cs |-> IF k = id THEN DictUpdate(cs[k], updates) ELSE cs[k]]

\* update_customer that saves before it merges
update_customer_save_first(cs, ord, d, id, updates, io) ==
    IF id \in DOMAIN cs
    THEN [customers |-> MergeUpdates(cs, id, updates), saved |-> TRUE,
          disk |-> save_customer_data(cs, ord, d, io)]
    ELSE [customers |-> cs, saved |-> FALSE, disk |-> d]

\* update_customer that saves outside its `if`
update_customer_save_always(cs, ord, d, id, updates, io) ==
    LET merged == IF id \in DOMAIN cs THEN MergeUpdates(cs, id, updates) ELSE cs
    IN  [customers |-> merged, saved |-> TRUE,
         disk |-> save_customer_data(merged, ord, d, io)]

\* update_customer that stores the updates under an id it does not hold
update_customer_inserting(cs, ord, d, id, updates, io) ==
    IF id \in DOMAIN cs
    THEN [customers |-> MergeUpdates(cs, id, updates), saved |-> TRUE,
          disk |-> save_customer_data(MergeUpdates(cs, id, updates), ord, d, io)]
    ELSE [customers |-> DictSet(cs, id, updates), saved |-> FALSE, disk |-> d]

\* update_customer that undoes the merge when the file could not be written
update_customer_rolling_back(cs, ord, d, id, updates, io) ==
    IF id \in DOMAIN cs
    THEN [customers |-> IF io = "ok" THEN MergeUpdates(cs, id, updates) ELSE cs,
          saved |-> TRUE,
          disk |-> save_customer_data(MergeUpdates(cs, id, updates), ord, d, io)]
    ELSE [customers |-> cs, saved |-> FALSE, disk |-> d]

\* update_customer: the store and the file after the call
update_customer(cs, ord, d, id, updates, io) ==
    IF id \in DOMAIN cs
    THEN LET merged == MergeUpdates(cs, id, updates)
         IN  [customers |-> merged, saved |-> TRUE,
              disk |-> save_customer_data(merged, ord, d, io)]
    ELSE [customers |-> cs, saved |-> FALSE, disk |-> d]

-----------------------------------------------------------------------------
(* Results of the methods that can raise or sample.                        *)
(*   raised   an exception left the method                                 *)
(*   out      the value returned                                           *)
(*   log      the calls made, in call order and nested ones included, of   *)
(*            the store's lookups, the settings resolvers and the methods  *)
(*            that take a customer id (helpers that only sample are left   *)
(*            out)                                                         *)
(*   sampled  some call of the random module was made                      *)

Ok(out, log, sampled) ==
    [raised |-> FALSE, out |-> out, log |-> log, sampled |-> sampled]

Raise(exc, log, sampled) ==
    [raised |-> TRUE, exc |-> exc, log |-> log, sampled |-> sampled]

\* a value drawn from the random module, the clock or a hash
Random == "<random>"

\* Python's None where a string is expected
None == "<None>"

-----------------------------------------------------------------------------
(* biometric_countermeasures.py: the settings resolver *)

intensity_mapping ==
    [low |-> "minimal", medium |-> "standard", high |-> "aggressive",
     maximum |-> "comprehensive"]

\* the if/elif chain of the loop over device_types
DeviceBiometrics(device) ==
    IF device \in {"smartphone", "tablet"}
    THEN {"facial_recognition", "fingerprint", "voice_print"}
    ELSE IF device = "laptop" THEN {"facial_recognition", "keystroke_dynamics"}
    ELSE IF device = "smartwatch" THEN {"gait_analysis", "behavioral_patterns"}
    ELSE {}

\* the biometrics of the first device type only
ApplicableBiometricsOfFirst(device_types) ==
    IF Len(device_types) = 0 THEN {} ELSE DeviceBiometrics(device_types[1])

\* list(set(applicable_biometrics)): a list without duplicates whose order is
\* the set's iteration order, so it is modelled as the set
ApplicableBiometrics(device_types) ==
    UNION {DeviceBiometrics(device_types[i]) : i \in 1..Len(device_types)}

\* the resolver with intensity_mapping[privacy_level] guarded by a wrong default
get_customer_biometric_settings_minimal(cs, id) ==
    LET customer_prefs == get_customer_preferences(cs, id)
        privacy_level == DictGet(customer_prefs, "privacy_level", "medium")
        service_tier == DictGet(customer_prefs, "service_tier", "standard")
        device_types == DictGet(customer_prefs, "device_types", <<"smartphone">>)
    IN  IF ~DictGet(customer_prefs, "biometric_protection", TRUE)
        THEN [enabled |-> FALSE]
        ELSE [enabled |-> TRUE,
              intensity |-> DictGet(intensity_mapping, privacy_level, "minimal"),
              applicable_biometrics |-> ApplicableBiometrics(device_types),
              continuous_protection |-> privacy_level \in {"high", "maximum"},
              adaptive_countermeasures |-> service_tier \in {"premium", "enterprise"},
              multi_modal_protection |-> privacy_level = "maximum"]

get_customer_biometric_settings(cs, id) ==
    LET customer_prefs == get_customer_preferences(cs, id)
        privacy_level == DictGet(customer_prefs, "privacy_level", "medium")
        service_tier == DictGet(customer_prefs, "service_tier", "standard")
        device_types == DictGet(customer_prefs, "device_types", <<"smartphone">>)
    IN  IF ~DictGet(customer_prefs, "biometric_protection", TRUE)
        THEN [enabled |-> FALSE]
        ELSE [enabled |-> TRUE,
              intensity |-> DictGet(intensity_mapping, privacy_level, "standard"),
              applicable_biometrics |-> ApplicableBiometrics(device_types),
              continuous_protection |-> privacy_level \in {"high", "maximum"},
              adaptive_countermeasures |-> service_tier \in {"premium", "enterprise"},
              multi_modal_protection |-> privacy_level = "maximum"]

\* the calls one get_customer_biometric_settings makes
LogBiometricSettings ==
    <<"get_customer_biometric_settings", "get_customer_preferences", "get_customer">>

-----------------------------------------------------------------------------
(* communication_shield.py: the settings resolver *)

encryption_levels ==
    [basic |-> [key_size |-> 128, rounds |-> 1],
     standard |-> [key_size |-> 256, rounds |-> 2],
     high |-> [key_size |-> 256, rounds |-> 3],
     maximum |-> [key_size |-> 256, rounds |-> 5]]

\* the table with its two lowest entries exchanged
encryption_mapping_exchanged ==
    [low |-> "standard", medium |-> "basic", high |-> "high", maximum |-> "maximum"]

encryption_mapping ==
    [low |-> "basic", medium |-> "standard", high |-> "high", maximum |-> "maximum"]

\* the resolver that works the level out before it looks at the toggle
get_customer_encryption_settings_labelled(cs, id) ==
    LET customer_prefs == get_customer_preferences(cs, id)
        privacy_level == DictGet(customer_prefs, "privacy_level", "medium")
        service_tier == DictGet(customer_prefs, "service_tier", "standard")
        encryption_level ==
            IF service_tier = "enterprise" THEN "maximum"
            ELSE DictGet(encryption_mapping, privacy_level, "standard")
    IN  [enabled |-> DictGet(customer_prefs, "encryption_enabled", TRUE),
         level |-> encryption_level,
         settings |-> encryption_levels[encryption_level],
         steganography |-> privacy_level \in {"high", "maximum"},
         noise_generation |-> privacy_level \in {"high", "maximum"},
         multi_layer |-> service_tier = "enterprise"]

get_customer_encryption_settings(cs, id) ==
    LET customer_prefs == get_customer_preferences(cs, id)
        privacy_level == DictGet(customer_prefs, "privacy_level", "medium")
        service_tier == DictGet(customer_prefs, "service_tier", "standard")
        encryption_level ==
            IF service_tier = "enterprise" THEN "maximum"
            ELSE DictGet(encryption_mapping, privacy_level, "standard")
    IN  IF ~DictGet(customer_prefs, "encryption_enabled", TRUE)
        THEN [enabled |-> FALSE]
        ELSE [enabled |-> TRUE,
              level |-> encryption_level,
              settings |-> encryption_levels[encryption_level],
              steganography |-> privacy_level \in {"high", "maximum"},
              noise_generation |-> privacy_level \in {"high", "maximum"},
              multi_layer |-> service_tier = "enterprise"]

LogEncryptionSettings ==
    <<"get_customer_encryption_settings", "get_customer_preferences", "get_customer">>

LogPreferences == <<"get_customer_preferences", "get_customer">>

-----------------------------------------------------------------------------
(* cobra_device.py *)

data_streams ==
    {"accelerometer", "gyroscope", "magnetometer", "temperature", "humidity",
     "pressure", "light_sensor", "proximity", "wifi_scan", "bluetooth_scan",
     "cellular_signal", "battery_level", "cpu_usage", "memory_usage",
     "network_latency", "gps_accuracy", "microphone_ambient", "camera_exposure",
     "touch_pressure", "vibration_pattern"}

device_streams ==
    [smartphone |-> {"accelerometer", "gyroscope", "wifi_scan", "bluetooth_scan",
                     "cellular_signal", "battery_level", "gps_accuracy",
                     "microphone_ambient"},
     laptop |-> {"temperature", "cpu_usage", "memory_usage", "network_latency",
                 "wifi_scan", "battery_level", "camera_exposure"},
     tablet |-> {"accelerometer", "gyroscope", "touch_pressure", "light_sensor",
                 "wifi_scan", "battery_level", "gps_accuracy"},
     smartwatch |-> {"accelerometer", "gyroscope", "heart_rate", "skin_temperature",
                     "step_count", "vibration_pattern", "ambient_light"}]

\* list(available_streams): a list without duplicates, modelled as the set
get_device_streams(device_types) ==
    UNION {DictGet(device_streams, device_types[i], {}) : i \in 1..Len(device_types)}

\* int(base_streams * multiplier) for the multipliers 0.5, 1.0, 1.5, 2.0
NumStreams(base_streams, privacy_level) ==
    IF privacy_level = "low" THEN base_streams \div 2
    ELSE IF privacy_level = "high" THEN (3 * base_streams) \div 2
    ELSE IF privacy_level = "maximum" THEN 2 * base_streams
    ELSE base_streams

\* generate_false_signatures: 'signatures' holds one entry per i in
\* range(num_streams) (the keys contain i), modelled by their number
generate_false_signatures(num_streams, available_streams, customer_id) ==
    IF num_streams > 0 /\ available_streams = {}
    THEN Raise("IndexError", <<"generate_false_signatures">>, TRUE)
    ELSE Ok([signatures |-> IF num_streams > 0 THEN num_streams ELSE 0,
             metadata |-> [customer_id |-> customer_id,
                           generation_time |-> Random,
                           total_signatures |-> num_streams,
                           device_coverage |-> Cardinality(available_streams)]],
            <<"generate_false_signatures">>, num_streams > 0)

\* generate_false_signatures_for_customer that leaves the number of streams
\* of an unknown customer to the default of generate_false_signatures
generate_false_signatures_for_customer_by_default(cs, id) ==
    LET customer_prefs == get_customer_preferences(cs, id)
        log == <<"generate_false_signatures_for_customer">> \o LogPreferences
        available_streams == get_device_streams(customer_prefs["device_types"])
        r == IF DOMAIN customer_prefs = {}
             THEN generate_false_signatures(50, data_streams, None)
             ELSE generate_false_signatures(
                      NumStreams(Cardinality(available_streams),
                                 customer_prefs["privacy_level"]),
                      available_streams, id)
    IN  [r EXCEPT !.log = log \o r.log]

generate_false_signatures_for_customer(cs, id) ==
    LET customer_prefs == get_customer_preferences(cs, id)
        log == <<"generate_false_signatures_for_customer">> \o LogPreferences
        available_streams == get_device_streams(customer_prefs["device_types"])
        r == IF DOMAIN customer_prefs = {}
             THEN generate_false_signatures(25, data_streams, None)
             ELSE generate_false_signatures(
                      NumStreams(Cardinality(available_streams),
                                 customer_prefs["privacy_level"]),
                      available_streams, id)
    IN  [r EXCEPT !.log = log \o r.log]

\* generate_device_fingerprint: 'hardware_signatures' is keyed by device type
generate_device_fingerprint(cs, id) ==
    LET customer_prefs == get_customer_preferences(cs, id)
        device_types == DictGet(customer_prefs, "device_types", <<"smartphone">>)
    IN  Ok([customer_id |-> id,
            device_types |-> device_types,
            os_variants |-> [i \in 1..Len(device_types) |-> Random],
            hardware_signatures |-> [d \in SeqToSet(device_types) |-> Random],
            network_characteristics |-> Random,
            generation_timestamp |-> Random],
           <<"generate_device_fingerprint">> \o LogPreferences, TRUE)

\* int(10 * noise_factor) for the factors 0.5, 1.0, 2.0, 3.0
SignaturesPerMinute(privacy_level) ==
    IF privacy_level = "low" THEN 5
    ELSE IF privacy_level = "high" THEN 20
    ELSE IF privacy_level = "maximum" THEN 30
    ELSE 10

\* create_noise_signatures: the list is modelled by its length
create_noise_signatures(cs, duration_minutes, id) ==
    LET customer_prefs == get_customer_preferences(cs, id)
        privacy_level == DictGet(customer_prefs, "privacy_level", "medium")
        n == duration_minutes * SignaturesPerMinute(privacy_level)
    IN  Ok(n, <<"create_noise_signatures">> \o LogPreferences, n > 0)

-----------------------------------------------------------------------------
(* location_obfuscator.py *)

city_coordinates ==
    {"New York", "Los Angeles", "Chicago", "Houston", "Phoenix", "Philadelphia",
     "San Antonio", "San Diego", "Dallas", "San Jose", "Austin", "Jacksonville",
     "San Francisco", "Columbus", "Charlotte", "Fort Worth", "Detroit", "El Paso",
     "Memphis", "Seattle", "Denver", "Washington DC", "Boston", "Nashville",
     "Baltimore", "Oklahoma City", "Louisville", "Portland", "Las Vegas",
     "Milwaukee", "Albuquerque", "Tucson", "Fresno", "Sacramento", "Mesa",
     "Kansas City", "Atlanta", "Miami"}

\* get_customer_cities: one coordinate pair per preferred city (a random
\* major city for a name that is not in the table); out is their number
get_customer_cities(cs, id) ==
    LET customer_prefs == get_customer_preferences(cs, id)
        preferred_cities ==
            DictGet(customer_prefs, "preferred_cities", <<"New York", "Los Angeles">>)
    IN  Ok(Len(preferred_cities), <<"get_customer_cities">> \o LogPreferences,
           \E i \in 1..Len(preferred_cities) : preferred_cities[i] \notin city_coordinates)

DisabledLocation == [message |-> "Location obfuscation disabled for this customer"]

generate_false_gps_for_customer(cs, id) ==
    LET customer_prefs == get_customer_preferences(cs, id)
        log == <<"generate_false_gps_for_customer">> \o LogPreferences
        cities == get_customer_cities(cs, id)
        privacy_level == DictGet(customer_prefs, "privacy_level", "medium")
    IN  IF ~DictGet(customer_prefs, "location_obfuscation", TRUE)
        THEN Ok(DisabledLocation, log, FALSE)
        ELSE IF cities.out = 0
        THEN Raise("IndexError", log \o cities.log, TRUE)
        ELSE Ok([customer_id |-> id, latitude |-> Random, longitude |-> Random,
                 accuracy |-> Random, altitude |-> Random, speed |-> Random,
                 bearing |-> Random, timestamp |-> Random,
                 privacy_level |-> privacy_level,
                 obfuscation_radius_km |-> Random],
                log \o cities.log, TRUE)

\* generate_location_trail: the list of points is modelled by its length;
\* the disabled answer is a one-element list holding the message
generate_location_trail(cs, id, duration_hours, points_per_hour) ==
    LET customer_prefs == get_customer_preferences(cs, id)
        log == <<"generate_location_trail">> \o LogPreferences
        cities == get_customer_cities(cs, id)
    IN  IF ~DictGet(customer_prefs, "location_obfuscation", TRUE)
        THEN Ok([disabled |-> TRUE, points |-> 1], log, FALSE)
        ELSE IF cities.out = 0
        THEN Raise("IndexError", log \o cities.log, TRUE)
        ELSE Ok([disabled |-> FALSE, points |-> duration_hours * points_per_hour],
                log \o cities.log, TRUE)

WifiCount(privacy_level) ==
    IF privacy_level = "low" THEN 5
    ELSE IF privacy_level = "high" THEN 20
    ELSE IF privacy_level = "maximum" THEN 30
    ELSE 10

\* generate_false_wifi_signatures with count = None: the list by its length
generate_false_wifi_signatures(cs, id) ==
    LET customer_prefs == get_customer_preferences(cs, id)
        log == <<"generate_false_wifi_signatures">> \o LogPreferences
        count == WifiCount(DictGet(customer_prefs, "privacy_level", "medium"))
        preferred_cities == DictGet(customer_prefs, "preferred_cities", <<"New York">>)
    IN  IF Len(preferred_cities) = 0
        THEN Raise("IndexError", log, TRUE)
        ELSE Ok(count, log, TRUE)

\* a tower table that dips at tier high
TowerCountDipping(privacy_level) ==
    IF privacy_level = "low" THEN 3
    ELSE IF privacy_level = "high" THEN 4
    ELSE IF privacy_level = "maximum" THEN 12
    ELSE 5

TowerCount(privacy_level) ==
    IF privacy_level = "low" THEN 3
    ELSE IF privacy_level = "high" THEN 8
    ELSE IF privacy_level = "maximum" THEN 12
    ELSE 5

\* generate_cellular_tower_data: the list by its length
generate_cellular_tower_data(cs, id) ==
    LET customer_prefs == get_customer_preferences(cs, id)
        log == <<"generate_cellular_tower_data">> \o LogPreferences
        cities == get_customer_cities(cs, id)
        tower_count == TowerCount(DictGet(customer_prefs, "privacy_level", "medium"))
    IN  IF cities.out = 0
        THEN Raise("IndexError", log \o cities.log, TRUE)
        ELSE Ok(tower_count, log \o cities.log, TRUE)

-----------------------------------------------------------------------------
(* identity_multiplier.py *)

\* the name style decided by the service tier alone
get_name_style_by_service(cs, id) ==
    LET customer_prefs == get_customer_preferences(cs, id)
        service_tier == DictGet(customer_prefs, "service_tier", "standard")
    IN  IF service_tier = "enterprise" THEN "international"
        ELSE IF service_tier = "premium" THEN "modern"
        ELSE "common"

get_name_style(cs, id) ==
    LET customer_prefs == get_customer_preferences(cs, id)
        service_tier == DictGet(customer_prefs, "service_tier", "standard")
        privacy_level == DictGet(customer_prefs, "privacy_level", "medium")
    IN  IF service_tier = "enterprise" \/ privacy_level = "maximum" THEN "international"
        ELSE IF service_tier = "premium" \/ privacy_level = "high" THEN "modern"
        ELSE "common"

complexity_mapping ==
    [low |-> "basic", medium |-> "standard", high |-> "detailed",
     maximum |-> "comprehensive"]

\* the keys of one identity of the given complexity
IdentityKeys(complexity) ==
    {"identity_id", "customer_id", "name", "email", "created_date", "activity_score",
     "digital_fingerprint", "complexity_level"}
    \cup (IF complexity \in {"standard", "detailed", "comprehensive"}
          THEN {"phone", "birth_year", "interests", "social_media"} ELSE {})
    \cup (IF complexity \in {"detailed", "comprehensive"}
          THEN {"occupation", "education_level", "location_history",
                "device_preferences", "online_behavior"} ELSE {})
    \cup (IF complexity = "comprehensive"
          THEN {"financial_profile", "health_data", "travel_patterns",
                "purchase_history", "network_connections"} ELSE {})

\* one identity: the keys it has, and the values that are not random
Identity(customer_id, name_style, complexity) ==
    [keys |-> IdentityKeys(complexity), customer_id |-> customer_id,
     name_style |-> name_style, complexity_level |-> complexity]

RECURSIVE Repeat(_, _)
Repeat(seq, n) == IF n <= 0 THEN <<>> ELSE seq \o Repeat(seq, n - 1)

\* generate_false_identities: range(count) is empty for count <= 0; every
\* identity looks its e-mail domain up through get_customer_preferences
generate_false_identities(count, customer_id, name_style, privacy_level) ==
    LET complexity == DictGet(complexity_mapping, privacy_level, "standard")
        n == IF count > 0 THEN count ELSE 0
    IN  Ok([i \in 1..n |-> Identity(customer_id, name_style, complexity)],
           <<"generate_false_identities">>
               \o Repeat(<<"generate_email_address">> \o LogPreferences, n),
           n > 0)

generate_false_identities_for_customer(cs, id) ==
    LET customer_prefs == get_customer_preferences(cs, id)
        log == <<"generate_false_identities_for_customer">> \o LogPreferences
        r == IF DOMAIN customer_prefs = {}
             THEN generate_false_identities(25, None, "common", "medium")
             ELSE generate_false_identities(
                      DictGet(customer_prefs, "identity_count", 25), id,
                      get_name_style(cs, id),
                      DictGet(customer_prefs, "privacy_level", "medium"))
    IN  [r EXCEPT !.log =
            log \o (IF DOMAIN customer_prefs = {} THEN <<>>
                    ELSE <<"get_name_style">> \o LogPreferences) \o r.log]

\* generate_identity_lifecycle_events: 1 + randint(5, 15) events
generate_identity_lifecycle_events(identity) ==
    Ok(Random, <<"generate_identity_lifecycle_events">>, TRUE)

-----------------------------------------------------------------------------
(* communication_shield.py: the generators *)

generate_encryption_key(cs, id) ==
    Ok(Random, <<"generate_encryption_key">> \o LogEncryptionSettings, TRUE)

RECURSIVE RoundKeys(_)
\* the log of the loop `for round_num in range(encryption_rounds)`; every
\* round key is asked for under an id that no customer has
RoundKeys(n) ==
    IF n = 0 THEN <<>>
    ELSE <<"generate_encryption_key">> \o LogEncryptionSettings \o RoundKeys(n - 1)

create_steganographic_message(cs, message, id, cover_type) ==
    LET encryption_settings == get_customer_encryption_settings(cs, id)
        log == <<"create_steganographic_message">> \o LogEncryptionSettings
    IN  IF ~DictGet(encryption_settings, "steganography", FALSE)
        THEN Ok([error |-> "Steganography not enabled for this customer"], log, FALSE)
        ELSE Ok([cover_text |-> Random, cover_type |-> cover_type,
                 hidden_payload |-> Random, steganography_method |-> Random,
                 encryption_rounds |-> encryption_settings.settings.rounds,
                 timestamp |-> Random, customer_id |-> id, message_id |-> Random],
                log \o generate_encryption_key(cs, id).log
                    \o RoundKeys(encryption_settings.settings.rounds),
                TRUE)

intensity_mapping_noise == [low |-> 1, medium |-> 3, high |-> 7, maximum |-> 15]

\* create_communication_noise: the list by its length; the refusal is a
\* one-element list holding the message
create_communication_noise(cs, id, duration_minutes) ==
    LET encryption_settings == get_customer_encryption_settings(cs, id)
        log == <<"create_communication_noise">> \o LogEncryptionSettings
        privacy_level ==
            DictGet(get_customer_preferences(cs, id), "privacy_level", "medium")
        packets_per_minute == DictGet(intensity_mapping_noise, privacy_level, 3)
    IN  IF ~DictGet(encryption_settings, "noise_generation", FALSE)
        THEN Ok([refused |-> TRUE, packets |-> 1], log, FALSE)
        ELSE Ok([refused |-> FALSE, packets |-> duration_minutes * packets_per_minute],
                log \o LogPreferences, duration_minutes * packets_per_minute > 0)

create_secure_channel(cs, id) ==
    LET encryption_settings == get_customer_encryption_settings(cs, id)
        log == <<"create_secure_channel">> \o LogEncryptionSettings
        strong == encryption_settings.level \in {"high", "maximum"}
    IN  IF ~DictGet(encryption_settings, "enabled", TRUE)
        THEN Ok([error |-> "Encryption not enabled for this customer"], log, FALSE)
        ELSE Ok([channel_id |-> Random, customer_id |-> id,
                 channel_type |-> "bidirectional",
                 encryption_level |-> encryption_settings.level,
                 key_exchange |-> [method |-> IF strong THEN "ECDH" ELSE "DHE",
                                   curve |-> IF strong THEN "secp256r1" ELSE "secp224r1",
                                   key_size |-> encryption_settings.settings.key_size],
                 session_keys |-> Random,
                 channel_features |->
                     [forward_secrecy |-> strong, message_authentication |-> TRUE,
                      replay_protection |-> TRUE,
                      traffic_analysis_resistance |->
                          DictGet(encryption_settings, "noise_generation", FALSE)],
                 created_timestamp |-> Random, expiry_timestamp |-> Random,
                 protocol_version |->
                     IF encryption_settings.level = "maximum" THEN "2.1" ELSE "2.0"],
                log \o generate_encryption_key(cs, id).log
                    \o generate_encryption_key(cs, id).log,
                TRUE)

\* generate_decoy_communications: the list by its length
generate_decoy_communications(cs, id, count) ==
    LET service_tier ==
            DictGet(get_customer_preferences(cs, id), "service_tier", "standard")
    IN  Ok(IF count > 0 THEN count ELSE 0,
           <<"generate_decoy_communications">> \o LogEncryptionSettings
               \o LogPreferences,
           service_tier # "enterprise" \/ count > 0)

-----------------------------------------------------------------------------
(* biometric_countermeasures.py: the generators *)

DisabledBiometric == [message |-> "Biometric protection disabled for this customer"]

NotApplicable(what) == [message |-> what]

\* generate_face_variation_map: every list by its length
generate_face_variation_map(intensity, customer_id) ==
    Ok([customer_id |-> customer_id, intensity_level |-> intensity,
        facial_landmarks |-> 68, lighting_adjustments |-> 6,
        geometric_transforms |-> 4,
        texture_modifications |->
            IF intensity \in {"aggressive", "comprehensive"} THEN 4 ELSE 0,
        temporal_variations |-> IF intensity = "comprehensive" THEN 24 ELSE 0,
        generation_timestamp |-> Random],
       <<"generate_face_variation_map">>, TRUE)

generate_face_variation_map_for_customer(cs, id) ==
    LET settings == get_customer_biometric_settings(cs, id)
        log == <<"generate_face_variation_map_for_customer">> \o LogBiometricSettings
        r == generate_face_variation_map(settings.intensity, id)
    IN  IF ~DictGet(settings, "enabled", TRUE) THEN Ok(DisabledBiometric, log, FALSE)
        ELSE IF "facial_recognition" \notin DictGet(settings, "applicable_biometrics", {})
        THEN Ok(NotApplicable("Facial recognition protection not applicable for customer devices"), log, FALSE)
        ELSE [r EXCEPT !.log = log \o r.log]

\* the keys of the three other modality generators' records
GaitKeys(intensity) ==
    {"customer_id", "intensity_level", "step_modifications", "temporal_modifications",
     "kinematic_modifications", "pressure_distribution", "generation_timestamp"}
    \cup (IF intensity = "comprehensive" THEN {"environmental_adaptations"} ELSE {})

\* the gait generator without the test of the applicable biometrics
generate_gait_modification_pattern_unchecked(cs, id) ==
    LET settings == get_customer_biometric_settings(cs, id)
        log == <<"generate_gait_modification_pattern">> \o LogBiometricSettings
    IN  IF ~DictGet(settings, "enabled", TRUE) THEN Ok(DisabledBiometric, log, FALSE)
        ELSE Ok([keys |-> GaitKeys(settings.intensity), customer_id |-> id,
                 intensity_level |-> settings.intensity], log, TRUE)

generate_gait_modification_pattern(cs, id) ==
    LET settings == get_customer_biometric_settings(cs, id)
        log == <<"generate_gait_modification_pattern">> \o LogBiometricSettings
    IN  IF ~DictGet(settings, "enabled", TRUE) THEN Ok(DisabledBiometric, log, FALSE)
        ELSE IF "gait_analysis" \notin DictGet(settings, "applicable_biometrics", {})
        THEN Ok(NotApplicable("Gait analysis protection not applicable for customer devices"), log, FALSE)
        ELSE Ok([keys |-> GaitKeys(settings.intensity), customer_id |-> id,
                 intensity_level |-> settings.intensity], log, TRUE)

\* 'typing_patterns' has one entry per test sequence
generate_keystroke_dynamics_variation(cs, id) ==
    LET settings == get_customer_biometric_settings(cs, id)
        log == <<"generate_keystroke_dynamics_variation">> \o LogBiometricSettings
    IN  IF ~DictGet(settings, "enabled", TRUE) THEN Ok(DisabledBiometric, log, FALSE)
        ELSE IF "keystroke_dynamics" \notin DictGet(settings, "applicable_biometrics", {})
        THEN Ok(NotApplicable("Keystroke dynamics protection not applicable for customer devices"), log, FALSE)
        ELSE Ok([keys |-> {"customer_id", "intensity_level", "typing_patterns",
                           "rhythm_modifications", "pressure_variations",
                           "error_patterns", "generation_timestamp"},
                 customer_id |-> id, intensity_level |-> settings.intensity,
                 typing_patterns |-> 8], log, TRUE)

generate_voice_print_countermeasures(cs, id) ==
    LET settings == get_customer_biometric_settings(cs, id)
        log == <<"generate_voice_print_countermeasures">> \o LogBiometricSettings
    IN  IF ~DictGet(settings, "enabled", TRUE) THEN Ok(DisabledBiometric, log, FALSE)
        ELSE IF "voice_print" \notin DictGet(settings, "applicable_biometrics", {})
        THEN Ok(NotApplicable("Voice print protection not applicable for customer devices"), log, FALSE)
        ELSE Ok([keys |-> {"customer_id", "intensity_level", "acoustic_modifications",
                           "prosodic_variations", "linguistic_patterns",
                           "environmental_factors", "generation_timestamp"},
                 customer_id |-> id, intensity_level |-> settings.intensity],
                log, TRUE)

\* the keys generate_multi_modal_countermeasures files the modalities under
SynchronizedKeys(applicable) ==
    (IF "facial_recognition" \in applicable THEN {"facial"} ELSE {})
    \cup (IF "gait_analysis" \in applicable THEN {"gait"} ELSE {})
    \cup (IF "keystroke_dynamics" \in applicable THEN {"keystroke"} ELSE {})
    \cup (IF "voice_print" \in applicable THEN {"voice"} ELSE {})

\* generate_multi_modal_countermeasures: 'synchronized_countermeasures' by its
\* keys, 'coordination_matrix' by its length (one entry per pair i < j)
generate_multi_modal_countermeasures(cs, id) ==
    LET settings == get_customer_biometric_settings(cs, id)
        log == <<"generate_multi_modal_countermeasures">> \o LogBiometricSettings
        applicable == DictGet(settings, "applicable_biometrics", {})
        n == Cardinality(applicable)
    IN  IF ~DictGet(settings, "multi_modal_protection", FALSE)
        THEN Ok([message |-> "Multi-modal protection not enabled for this customer"],
                log, FALSE)
        ELSE Ok([customer_id |-> id,
                 protection_level |-> "multi_modal_comprehensive",
                 synchronized_countermeasures |-> SynchronizedKeys(applicable),
                 coordination_matrix |-> (n * (n - 1)) \div 2,
                 generation_timestamp |-> Random],
                log
                  \o (IF "facial_recognition" \in applicable
                      THEN <<"generate_face_variation_map">> ELSE <<>>)
                  \o (IF "gait_analysis" \in applicable
                      THEN generate_gait_modification_pattern(cs, id).log ELSE <<>>)
                  \o (IF "keystroke_dynamics" \in applicable
                      THEN generate_keystroke_dynamics_variation(cs, id).log ELSE <<>>)
                  \o (IF "voice_print" \in applicable
                      THEN generate_voice_print_countermeasures(cs, id).log ELSE <<>>),
                n > 0)

-----------------------------------------------------------------------------
(* the entries of the generated lists *)

\* cobra_device.py, create_noise_signatures: one noise signature
NoiseSignature ==
    [signature_id |-> Random, timestamp |-> Random, stream_type |-> Random,
     noise_value |-> Random, noise_pattern |-> Random, amplitude |-> Random,
     frequency_hz |-> Random]

\* location_obfuscator.py, generate_location_trail: one trail point; the id
\* is part of the text of 'point_id'
TrailPoint(customer_id) ==
    [point_id |-> <<customer_id, "_LOC_", Random>>, latitude |-> Random,
     longitude |-> Random, accuracy |-> Random, timestamp |-> Random,
     speed |-> Random, bearing |-> Random]

\* location_obfuscator.py, generate_false_wifi_signatures: one network
WifiNetwork ==
    [bssid |-> Random, ssid |-> Random, signal_strength |-> Random,
     frequency |-> Random, security |-> Random, channel |-> Random,
     vendor |-> Random, first_seen |-> Random, location_context |-> Random]

\* location_obfuscator.py, generate_cellular_tower_data: one tower
Tower ==
    [tower_id |-> Random, mcc |-> Random, mnc |-> Random, lac |-> Random,
     cell_id |-> Random, latitude |-> Random, longitude |-> Random,
     signal_strength |-> Random, technology |-> Random,
     frequency_band |-> Random, distance_estimate |-> Random,
     timestamp |-> Random]

\* communication_shield.py, create_communication_noise: one packet; its
\* 'encryption_level' is drawn at random
NoisePacket(customer_id) ==
    [packet_id |-> <<"NOISE_", customer_id, "_", Random>>, timestamp |-> Random,
     size_bytes |-> Random, protocol |-> Random, destination_type |-> Random,
     content_type |-> Random, encryption_level |-> Random,
     content_hash |-> Random, traffic_pattern |-> Random,
     decoy_purpose |-> Random]

\* communication_shield.py, generate_decoy_communications: one message
DecoyMessage(customer_id) ==
    [message_id |-> <<"DECOY_", customer_id, "_", Random>>,
     customer_id |-> customer_id, content |-> Random, message_type |-> Random,
     protocol |-> Random, timestamp |-> Random, size_bytes |-> Random,
     encryption_applied |-> Random, priority |-> Random, metadata |-> Random]

-----------------------------------------------------------------------------
(* main_demo.py: PrivacyProtectionSuite.generate_customer_protection_profile *)

\* b after a: an exception in a ends the sequence
Then(a, b) ==
    IF a.raised THEN a
    ELSE [b EXCEPT !.log = a.log \o b.log, !.sampled = a.sampled \/ b.sampled]

\* the result of a sequence of calls, with the value built from them
Built(calls, value) == IF calls.raised THEN calls ELSE [calls EXCEPT !.out = value]

Nothing == Ok(Random, <<>>, FALSE)

DisabledComponent == [status |-> "disabled_per_customer_preference"]

NotFound(id) == [error |-> <<"Customer", id, "not found">>]

\* 1. COBRA Device Signatures: the entry built from the three results
CobraArtifact(cobra_data, device_fingerprint, noise_signatures) ==
    Built(Then(Then(cobra_data, device_fingerprint), noise_signatures),
          [digital_signatures |->
               [count |-> cobra_data.out.signatures,
                device_coverage |-> cobra_data.out.metadata.device_coverage,
                sample_signatures |-> Random],
           device_fingerprint |->
               [device_types |-> device_fingerprint.out.device_types,
                hardware_variants |->
                    Cardinality(DOMAIN device_fingerprint.out.hardware_signatures),
                network_characteristics |-> Random],
           noise_generation |->
               [noise_signatures_count |-> noise_signatures.out,
                duration_minutes |-> 30]])

CobraComponent(cs, id) ==
    CobraArtifact(generate_false_signatures_for_customer(cs, id),
                  generate_device_fingerprint(cs, id),
                  create_noise_signatures(cs, 30, id))

\* 2. Location Obfuscation
LocationArtifact(false_gps, location_trail, wifi_signatures, cellular_data) ==
    Built(Then(Then(Then(false_gps, location_trail), wifi_signatures), cellular_data),
          [false_gps |-> [obfuscation_radius_km |-> Random,
                          accuracy_range |-> Random],
           location_trail |-> [points_generated |-> location_trail.out.points,
                               duration_hours |-> 12],
           wifi_signatures |-> wifi_signatures.out,
           cellular_towers |-> cellular_data.out])

\* the location branch without the test of the customer's toggle
LocationComponentAlways(cs, id, customer_prefs) ==
    LocationArtifact(generate_false_gps_for_customer(cs, id),
                     generate_location_trail(cs, id, 12, 4),
                     generate_false_wifi_signatures(cs, id),
                     generate_cellular_tower_data(cs, id))

LocationComponent(cs, id, customer_prefs) ==
    IF customer_prefs["location_obfuscation"]
    THEN LocationArtifact(generate_false_gps_for_customer(cs, id),
                          generate_location_trail(cs, id, 12, 4),
                          generate_false_wifi_signatures(cs, id),
                          generate_cellular_tower_data(cs, id))
    ELSE Built(Nothing, DisabledComponent)

\* 3. Identity Multiplication
IdentityArtifact(false_identities, lifecycle_events) ==
    Built(Then(false_identities, lifecycle_events),
          [false_identities_count |-> Len(false_identities.out),
           complexity_level |->
               IF Len(false_identities.out) > 0
               THEN false_identities.out[1].complexity_level ELSE "N/A",
           sample_identity |-> IF Len(false_identities.out) > 0 THEN Random ELSE "N/A",
           lifecycle_events_sample |->
               IF Len(false_identities.out) > 0 THEN Random ELSE "0"])

\* lifecycle events are generated for the first identity, when there is one
IdentityWithEvents(false_identities) ==
    IdentityArtifact(false_identities,
                     IF Len(false_identities.out) > 0
                     THEN generate_identity_lifecycle_events(false_identities.out[1])
                     ELSE Nothing)

IdentityComponent(cs, id) ==
    IdentityWithEvents(generate_false_identities_for_customer(cs, id))

\* 4. Communication Shield
CommunicationArtifact(encryption_settings, steganographic_msg, comm_noise, secure_channel, decoy_comms) ==
    Built(Then(Then(Then(Then(Ok(Random, LogEncryptionSettings, FALSE),
                              steganographic_msg), comm_noise),
                    secure_channel), decoy_comms),
          [encryption_level |-> encryption_settings["level"],
           steganography_enabled |->
               DictGet(encryption_settings, "steganography", FALSE),
           noise_generation_enabled |->
               DictGet(encryption_settings, "noise_generation", FALSE),
           secure_channel |->
               [channel_id |-> DictGet(secure_channel.out, "channel_id", "N/A"),
                forward_secrecy |->
                    DictGet(DictGet(secure_channel.out, "channel_features", EmptyDict),
                            "forward_secrecy", FALSE)],
           communication_noise_packets |-> comm_noise.out.packets,
           decoy_communications |-> decoy_comms.out])

\* the calls made under the customer's encryption settings
CommunicationCalls(cs, id, encryption_settings) ==
    CommunicationArtifact(
        encryption_settings,
        IF DictGet(encryption_settings, "steganography", FALSE)
        THEN create_steganographic_message(cs, "Test secure message", id, "business")
        ELSE Nothing,
        IF DictGet(encryption_settings, "noise_generation", FALSE)
        THEN create_communication_noise(cs, id, 20)
        ELSE Ok([refused |-> FALSE, packets |-> 0], <<>>, FALSE),
        create_secure_channel(cs, id),
        generate_decoy_communications(cs, id, 25))

CommunicationComponent(cs, id, customer_prefs) ==
    IF customer_prefs["encryption_enabled"]
    THEN CommunicationCalls(cs, id, get_customer_encryption_settings(cs, id))
    ELSE Built(Nothing, DisabledComponent)

\* 5. Biometric Countermeasures.  The keys of `countermeasures`: a modality is
\* entered when its generator was called and returned a record, not a message
Countermeasures(applicable, maximum, face_variations, gait_modifications, keystroke_variations, voice_modifications, multi_modal) ==
    (IF "facial_recognition" \in applicable
        /\ "facial_landmarks" \in DOMAIN face_variations.out
     THEN {"facial_recognition"} ELSE {})
    \cup (IF "gait_analysis" \in applicable
             /\ "message" \notin DOMAIN gait_modifications.out
          THEN {"gait_analysis"} ELSE {})
    \cup (IF "keystroke_dynamics" \in applicable
             /\ "message" \notin DOMAIN keystroke_variations.out
          THEN {"keystroke_dynamics"} ELSE {})
    \cup (IF "voice_print" \in applicable
             /\ "message" \notin DOMAIN voice_modifications.out
          THEN {"voice_print"} ELSE {})
    \cup (IF maximum /\ "synchronized_countermeasures" \in DOMAIN multi_modal.out
          THEN {"multi_modal"} ELSE {})

BiometricArtifact(bio_settings, maximum, face_variations, gait_modifications, keystroke_variations, voice_modifications, multi_modal) ==
    Built(Then(Then(Then(Then(Then(Ok(Random, LogBiometricSettings, FALSE),
                                   face_variations), gait_modifications),
                         keystroke_variations), voice_modifications),
               multi_modal),
          [protection_intensity |-> bio_settings["intensity"],
           applicable_biometrics |-> bio_settings["applicable_biometrics"],
           countermeasures |->
               Countermeasures(DictGet(bio_settings, "applicable_biometrics", {}),
                               maximum, face_variations, gait_modifications,
                               keystroke_variations, voice_modifications,
                               multi_modal)])

\* the calls made for the applicable biometrics
BiometricCalls(cs, id, bio_settings, applicable, maximum) ==
    BiometricArtifact(
        bio_settings, maximum,
        IF "facial_recognition" \in applicable
        THEN generate_face_variation_map_for_customer(cs, id) ELSE Nothing,
        IF "gait_analysis" \in applicable
        THEN generate_gait_modification_pattern(cs, id) ELSE Nothing,
        IF "keystroke_dynamics" \in applicable
        THEN generate_keystroke_dynamics_variation(cs, id) ELSE Nothing,
        IF "voice_print" \in applicable
        THEN generate_voice_print_countermeasures(cs, id) ELSE Nothing,
        IF maximum THEN generate_multi_modal_countermeasures(cs, id) ELSE Nothing)

BiometricWith(cs, id, bio_settings, maximum) ==
    BiometricCalls(cs, id, bio_settings,
                   DictGet(bio_settings, "applicable_biometrics", {}), maximum)

BiometricComponent(cs, id, customer_prefs) ==
    IF customer_prefs["biometric_protection"]
    THEN BiometricWith(cs, id, get_customer_biometric_settings(cs, id),
                       customer_prefs["privacy_level"] = "maximum")
    ELSE Built(Nothing, DisabledComponent)

\* lines 42-228: the profile, from the record, the preferences and the five
\* components
ProfileOf(id, customer, customer_prefs, lookups, cobra, location, identity, communication, biometric) ==
    IF "name" \notin DOMAIN customer.rec
    THEN Raise("KeyError", lookups.log, FALSE)
    ELSE Built(Then(Then(Then(Then(Then(lookups, cobra), location), identity),
                         communication), biometric),
               [customer_info |->
                    [customer_id |-> id,
                     name |-> customer.rec["name"],
                     privacy_level |-> customer_prefs["privacy_level"],
                     service_tier |-> customer_prefs["service_tier"],
                     profile_generated |-> Random],
                protection_components |->
                    [cobra_device |-> cobra.out,
                     location_obfuscation |-> location.out,
                     identity_multiplication |-> identity.out,
                     communication_shield |-> communication.out,
                     biometric_countermeasures |-> biometric.out]])

ProfileWith(cs, id, customer_prefs) ==
    ProfileOf(id, get_customer(cs, id), customer_prefs,
              Ok(Random, <<"get_customer">> \o LogPreferences, FALSE),
              CobraComponent(cs, id),
              LocationComponent(cs, id, customer_prefs),
              IdentityComponent(cs, id),
              CommunicationComponent(cs, id, customer_prefs),
              BiometricComponent(cs, id, customer_prefs))

\* lines 40-228: the profile of a customer the store holds
BuildProfile(cs, id) == ProfileWith(cs, id, get_customer_preferences(cs, id))

\* the composer without its `if not customer` check: customer["name"] on None
ProfileWithoutCheck(cs, id) ==
    IF NotCustomer(get_customer(cs, id))
    THEN Raise("TypeError", <<"get_customer">> \o LogPreferences, FALSE)
    ELSE BuildProfile(cs, id)

generate_customer_protection_profile(cs, id) ==
    IF NotCustomer(get_customer(cs, id))
    THEN Ok(NotFound(id), <<"get_customer">>, FALSE)
    ELSE BuildProfile(cs, id)

\* the section of the report for one component: the status line of a
\* disabled component, the printed fields of a generated one
ReportSection(component) ==
    IF "status" \in DOMAIN component THEN [status |-> component.status]
    ELSE component

\* lines 237-316: the text of the report, by the values it prints
ReportText(protection_profile) ==
    [customer |-> <<protection_profile.customer_info.name,
                    protection_profile.customer_info.customer_id>>,
     privacy_level |-> <<"title", protection_profile.customer_info.privacy_level>>,
     service_tier |-> <<"title", protection_profile.customer_info.service_tier>>,
     report_generated |-> protection_profile.customer_info.profile_generated,
     sections |-> [c \in DOMAIN protection_profile.protection_components |->
                      ReportSection(protection_profile.protection_components[c])]]

\* lines 232-316: the report made of the profile the method has just built
ReportOf(protection_profile) ==
    IF protection_profile.raised THEN protection_profile
    ELSE IF "error" \in DOMAIN protection_profile.out
    THEN [protection_profile EXCEPT !.out = <<"Error: ", protection_profile.out.error>>]
    ELSE [protection_profile EXCEPT !.out = ReportText(protection_profile.out)]

generate_privacy_report(cs, id) ==
    Then(Ok(Random, <<"generate_privacy_report">>, FALSE),
         ReportOf(generate_customer_protection_profile(cs, id)))

-----------------------------------------------------------------------------
(* The sequential specification: one call at a time *)

ThreadIds == {"t1", "t2"}

\* a thread: where it is in update_customer / save_customer_data, the
\* arguments of its call, the text it has handed to its file object so far
\* (buf, one entry per record), the index of the next record to encode, and
\* whether another thread has written the file since this one opened it
IdleThread ==
    [pc |-> "idle", id |-> None, updates |-> EmptyDict, buf |-> <<>>, i |-> 0,
     clobbered |-> FALSE]

Init ==
    /\ disk \in InitialFiles
    /\ customers = CustomerDataLoader(disk).customers
    /\ order = CustomerDataLoader(disk).order
    /\ last = [op |-> "__init__", raised |-> FALSE,
               warned |-> CustomerDataLoader(disk).warned]
    /\ nUpdates = 0
    /\ th = [t \in ThreadIds |-> IdleThread]

\* a fresh CustomerDataLoader over the same file
Construct ==
    /\ customers' = CustomerDataLoader(disk).customers
    /\ order' = CustomerDataLoader(disk).order
    /\ last' = [op |-> "__init__", raised |-> FALSE,
                warned |-> CustomerDataLoader(disk).warned]
    /\ UNCHANGED <<disk, nUpdates, th>>

GetCustomer(id) ==
    /\ last' = [op |-> "get_customer", id |-> id, raised |-> FALSE,
                ret |-> get_customer(customers, id)]
    /\ UNCHANGED <<disk, customers, order, nUpdates, th>>

GetAllCustomers ==
    /\ last' = [op |-> "get_all_customers", raised |-> FALSE,
                ret |-> get_all_customers(customers, order)]
    /\ UNCHANGED <<disk, customers, order, nUpdates, th>>

\* the tiers and the services the filters are asked for
FilterTiers == {"high", "low"}

FilterServices == {"location_obfuscation", "biometric_protection"}

GetCustomersByPrivacyLevel(privacy_level) ==
    /\ last' = [op |-> "get_customers_by_privacy_level", raised |-> FALSE,
                ret |-> get_customers_by_privacy_level(customers, order, privacy_level)]
    /\ UNCHANGED <<disk, customers, order, nUpdates, th>>

GetCustomersWithService(service_name) ==
    /\ last' = [op |-> "get_customers_with_service", raised |-> FALSE,
                ret |-> get_customers_with_service(customers, order, service_name)]
    /\ UNCHANGED <<disk, customers, order, nUpdates, th>>

GetCustomerPreferences(id) ==
    /\ last' = [op |-> "get_customer_preferences", id |-> id, raised |-> FALSE,
                ret |-> get_customer_preferences(customers, id)]
    /\ UNCHANGED <<disk, customers, order, nUpdates, th>>

UpdateCustomer(id, updates, io) ==
    /\ nUpdates < MaxUpdates
    /\ LET r == update_customer(customers, order, disk, id, updates, io)
       IN  /\ customers' = r.customers
           /\ disk' = r.disk
           /\ last' = [op |-> "update_customer", id |-> id, updates |-> updates,
                       raised |-> FALSE, saved |-> r.saved,
                       wrote |-> r.saved /\ io = "ok"]
    /\ nUpdates' = nUpdates + 1
    /\ UNCHANGED <<order, th>>

\* the resolver call followed by a save of the store
GetCustomerBiometricSettingsSaving(id) ==
    /\ last' = [op |-> "get_customer_biometric_settings", id |-> id, raised |-> FALSE,
                ret |-> get_customer_biometric_settings(customers, id)]
    /\ disk' = save_customer_data(customers, order, disk, "ok")
    /\ UNCHANGED <<customers, order, nUpdates, th>>

GetCustomerBiometricSettings(id) ==
    /\ last' = [op |-> "get_customer_biometric_settings", id |-> id, raised |-> FALSE,
                ret |-> get_customer_biometric_settings(customers, id)]
    /\ UNCHANGED <<disk, customers, order, nUpdates, th>>

GetCustomerEncryptionSettings(id) ==
    /\ last' = [op |-> "get_customer_encryption_settings", id |-> id, raised |-> FALSE,
                ret |-> get_customer_encryption_settings(customers, id)]
    /\ UNCHANGED <<disk, customers, order, nUpdates, th>>

GenerateCustomerProtectionProfile(id) ==
    /\ LET r == generate_customer_protection_profile(customers, id)
       IN  last' = [op |-> "generate_customer_protection_profile", id |-> id,
                    raised |-> r.raised, log |-> r.log, sampled |-> r.sampled,
                    ret |-> IF r.raised THEN r.exc ELSE r.out]
    /\ UNCHANGED <<disk, customers, order, nUpdates, th>>

\* the record of a completed call
Completed(g, id, r) ==
    [op |-> g, id |-> id, raised |-> r.raised, log |-> r.log, sampled |-> r.sampled,
     ret |-> IF r.raised THEN r.exc ELSE r.out]

GeneratePrivacyReport(id) ==
    /\ last' = Completed("generate_privacy_report", id,
                         generate_privacy_report(customers, id))
    /\ UNCHANGED <<disk, customers, order, nUpdates, th>>

Next ==
    \/ Construct
    \/ \E id \in Ids : GetCustomerBiometricSettings(id)
    \/ \E id \in Ids : GetCustomerEncryptionSettings(id)
    \/ \E id \in Ids : GenerateCustomerProtectionProfile(id)
    \/ \E id \in Ids : GeneratePrivacyReport(id)
    \/ \E id \in Ids : GetCustomer(id)
    \/ GetAllCustomers
    \/ \E privacy_level \in FilterTiers : GetCustomersByPrivacyLevel(privacy_level)
    \/ \E service_name \in FilterServices : GetCustomersWithService(service_name)
    \/ \E id \in Ids : GetCustomerPreferences(id)
    \/ \E id \in Ids, u \in UpdateSets, io \in IoOutcomes : UpdateCustomer(id, u, io)

Spec == Init /\ [][Next]_vars

-----------------------------------------------------------------------------
(* Two threads, each making one update_customer call on the shared store.   *)
(* The code takes no lock.  The steps are the points at which CPython can   *)
(* switch threads: dict.update with a dict of string keys is one step;      *)
(* json.dump with indent=2 encodes in Python code, chunk by chunk, reading  *)
(* the live records, and the text reaches the file when it is closed.       *)

HasFileOpen(t) == th[t].pc \in {"dump", "close"}

\* update_customer is entered
T_Call(t, id, updates) ==
    /\ th[t].pc = "idle"
    /\ th' = [th EXCEPT ![t].pc = "if", ![t].id = id, ![t].updates = updates]
    /\ UNCHANGED <<disk, customers, order, last, nUpdates>>

\* if customer_id in self.customers
T_If(t) ==
    /\ th[t].pc = "if"
    /\ th' = [th EXCEPT ![t].pc = IF th[t].id \in DOMAIN customers
                                  THEN "merge" ELSE "done"]
    /\ UNCHANGED <<disk, customers, order, last, nUpdates>>

\* self.customers[customer_id].update(updates)
T_Merge(t) ==
    /\ th[t].pc = "merge"
    /\ customers' = MergeUpdates(customers, th[t].id, th[t].updates)
    /\ th' = [th EXCEPT ![t].pc = "open"]
    /\ UNCHANGED <<disk, order, last, nUpdates>>

\* data = {"customers": list(self.customers.values())}; open(self.data_file, 'w')
\* truncates the file, so what another thread wrote before is gone
T_Open(t) ==
    /\ th[t].pc = "open"
    /\ disk' = File("malformed", <<>>)
    /\ th' = [u \in ThreadIds |->
                 IF u = t THEN [th[t] EXCEPT !.pc = "dump", !.buf = <<>>, !.i = 1,
                                             !.clobbered = FALSE]
                 ELSE [th[u] EXCEPT !.clobbered = FALSE]]
    /\ UNCHANGED <<customers, order, last, nUpdates>>

\* json.dump encodes the next record, as it is now
T_Dump(t) ==
    /\ th[t].pc = "dump"
    /\ th[t].i <= Len(order)
    /\ th' = [th EXCEPT ![t].buf = Append(th[t].buf, customers[order[th[t].i]]),
                        ![t].i = th[t].i + 1,
                        ![t].pc = IF th[t].i = Len(order) THEN "close" ELSE "dump"]
    /\ UNCHANGED <<disk, customers, order, last, nUpdates>>

\* thread u merges a new key into the record thread t is iterating over:
\* t's iteration raises RuntimeError (dictionary changed size during
\* iteration), save_customer_data catches it, and the `with` block closes the
\* file on the text written so far
T_DumpRaces(t, u) ==
    /\ t # u
    /\ th[t].pc = "dump"
    /\ th[t].i <= Len(order)
    /\ th[u].pc = "merge"
    /\ th[u].id = order[th[t].i]
    /\ ~(DOMAIN th[u].updates \subseteq DOMAIN customers[th[u].id])
    /\ customers' = MergeUpdates(customers, th[u].id, th[u].updates)
    /\ disk' = File("malformed", <<>>)
    /\ th' = [th EXCEPT ![t].pc = "done", ![u].pc = "open"]
    /\ UNCHANGED <<order, last, nUpdates>>

\* the file is closed: the text is written from offset 0.  Over a longer text
\* that another thread wrote meanwhile it leaves that text's tail behind.
T_Close(t) ==
    /\ th[t].pc = "close"
    /\ disk' \in {File("object", th[t].buf)}
                 \cup (IF th[t].clobbered THEN {File("malformed", <<>>)} ELSE {})
    /\ th' = [u \in ThreadIds |->
                 IF u = t THEN [th[t] EXCEPT !.pc = "done"]
                 ELSE IF HasFileOpen(u) THEN [th[u] EXCEPT !.clobbered = TRUE]
                 ELSE th[u]]
    /\ UNCHANGED <<customers, order, last, nUpdates>>

NextConc ==
    \/ \E t \in ThreadIds, id \in Ids, u \in UpdateSets : T_Call(t, id, u)
    \/ \E t \in ThreadIds : T_If(t)
    \/ \E t \in ThreadIds : T_Merge(t)
    \/ \E t \in ThreadIds : T_Open(t)
    \/ \E t \in ThreadIds : T_Dump(t)
    \/ \E t, u \in ThreadIds : T_DumpRaces(t, u)
    \/ \E t \in ThreadIds : T_Close(t)

SpecConc == Init /\ [][NextConc]_vars

-----------------------------------------------------------------------------
(* A caller that modifies the dict get_customer_preferences returned to it.  *)
(* The dict is new at every call; customer.get(field, default) puts into it  *)
(* the stored list object itself when the record has the field, and a new    *)
(* list when it has not.                                                     *)

MaxListLen == 2

ListFields == {"device_types", "preferred_cities"}

ListItems == {"toaster"}

\* prefs[field] is the list object of the stored record
SharesStoredList(cs, id, field) == id \in DOMAIN cs /\ field \in DOMAIN cs[id]

\* the store after prefs[field].append(item)
AppendToReturned(cs, id, field, item) ==
    IF SharesStoredList(cs, id, field)
    THEN [cs EXCEPT ![id] = DictSet(cs[id], field, Append(cs[id][field], item))]
    ELSE cs

\* the store after prefs[field].pop(0)
PopFromReturned(cs, id, field) ==
    IF SharesStoredList(cs, id, field)
    THEN [cs EXCEPT ![id] = DictSet(cs[id], field, Tail(cs[id][field]))]
    ELSE cs

AppendToPreferences(id, field, item) ==
    /\ DOMAIN get_customer_preferences(customers, id) # {}
    /\ Len(get_customer_preferences(customers, id)[field]) < MaxListLen
    /\ customers' = AppendToReturned(customers, id, field, item)
    /\ last' = [op |-> "append_to_preferences", id |-> id, field |-> field,
                raised |-> FALSE]
    /\ UNCHANGED <<disk, order, nUpdates, th>>

PopFromPreferences(id, field) ==
    /\ DOMAIN get_customer_preferences(customers, id) # {}
    /\ Len(get_customer_preferences(customers, id)[field]) > 0
    /\ customers' = PopFromReturned(customers, id, field)
    /\ last' = [op |-> "pop_from_preferences", id |-> id, field |-> field,
                raised |-> FALSE]
    /\ UNCHANGED <<disk, order, nUpdates, th>>

\* prefs['privacy_level'] = 'high': the dict is the caller's
AssignToPreferences(id) ==
    /\ DOMAIN get_customer_preferences(customers, id) # {}
    /\ last' = [op |-> "assign_to_preferences", id |-> id, field |-> "privacy_level",
                raised |-> FALSE]
    /\ UNCHANGED <<disk, customers, order, nUpdates, th>>

NextCaller ==
    \/ \E id \in Ids : GetCustomer(id)
    \/ \E id \in Ids : GetCustomerPreferences(id)
    \/ \E id \in Ids, field \in ListFields, item \in ListItems :
           AppendToPreferences(id, field, item)
    \/ \E id \in Ids, field \in ListFields : PopFromPreferences(id, field)
    \/ \E id \in Ids : AssignToPreferences(id)

SpecCaller == Init /\ [][NextCaller]_vars

-----------------------------------------------------------------------------
(* The resolvers and the generator entry points, called one at a time on a  *)
(* store of two customers whose records differ in the privacy tier only.    *)

PrivacyTiers == <<"low", "medium", "high", "maximum", "ultra">>

\* what the two records share: service tier, toggles, device types
BasePrefs ==
    {[service_tier |-> "standard", off |-> {}, device_types |-> <<"smartphone">>],
     [service_tier |-> "basic", off |-> {},
      device_types |-> <<"laptop", "smartphone">>],
     [service_tier |-> "premium", off |-> {},
      device_types |-> <<"smartphone", "laptop", "laptop">>],
     [service_tier |-> "enterprise", off |-> {},
      device_types |-> <<"smartwatch", "toaster">>],
     [service_tier |-> "standard", off |-> {"location_obfuscation"},
      device_types |-> <<"tablet">>],
     [service_tier |-> "standard", off |-> {"communication_encryption"},
      device_types |-> <<"laptop">>],
     [service_tier |-> "premium", off |-> {"biometric_protection"},
      device_types |-> <<"smartphone">>],
     [service_tier |-> "standard", off |-> {}, device_types |-> <<>>],
     [service_tier |-> "enterprise",
      off |-> {"location_obfuscation", "communication_encryption",
               "biometric_protection"},
      device_types |-> <<"smartphone", "smartwatch">>]}

TieredRecord(id, base, privacy_level) ==
    [customer_id |-> id, name |-> "Alice", privacy_level |-> privacy_level,
     service_tier |-> base.service_tier, device_types |-> base.device_types,
     preferred_cities |-> <<"Boston", "Atlantis">>,
     location_obfuscation |-> "location_obfuscation" \notin base.off,
     communication_encryption |-> "communication_encryption" \notin base.off,
     biometric_protection |-> "biometric_protection" \notin base.off,
     identity_multiplication_count |-> 2]

\* the pairs of tiers, the lower one first
TierPairs ==
    {p \in (1..Len(PrivacyTiers)) \X (1..Len(PrivacyTiers)) : p[1] <= p[2]}

TieredFiles ==
    {File("object", <<TieredRecord("CUST_001", base, PrivacyTiers[p[1]]),
                      TieredRecord("CUST_002", base, PrivacyTiers[p[2]])>>) :
        base \in BasePrefs, p \in TierPairs}

InitGen ==
    /\ disk \in TieredFiles
    /\ customers = CustomerDataLoader(disk).customers
    /\ order = CustomerDataLoader(disk).order
    /\ last = [op |-> "__init__", raised |-> FALSE,
               warned |-> CustomerDataLoader(disk).warned]
    /\ nUpdates = 0
    /\ th = [t \in ThreadIds |-> IdleThread]

GetNameStyle(id) ==
    /\ last' = [op |-> "get_name_style", id |-> id, raised |-> FALSE,
                ret |-> get_name_style(customers, id)]
    /\ UNCHANGED <<disk, customers, order, nUpdates, th>>

\* the generation operations that take a customer id
Generators ==
    {"generate_false_signatures_for_customer", "generate_device_fingerprint",
     "create_noise_signatures", "generate_false_gps_for_customer",
     "generate_location_trail", "generate_false_wifi_signatures",
     "generate_cellular_tower_data", "generate_false_identities_for_customer",
     "generate_encryption_key", "create_steganographic_message",
     "create_communication_noise", "create_secure_channel",
     "generate_decoy_communications", "generate_face_variation_map_for_customer",
     "generate_gait_modification_pattern", "generate_keystroke_dynamics_variation",
     "generate_voice_print_countermeasures", "generate_multi_modal_countermeasures"}

\* the call of one of them, the other arguments at their default values
CallGenerator(g, cs, id) ==
    CASE g = "generate_false_signatures_for_customer" ->
             generate_false_signatures_for_customer(cs, id)
      [] g = "generate_device_fingerprint" -> generate_device_fingerprint(cs, id)
      [] g = "create_noise_signatures" -> create_noise_signatures(cs, 30, id)
      [] g = "generate_false_gps_for_customer" -> generate_false_gps_for_customer(cs, id)
      [] g = "generate_location_trail" -> generate_location_trail(cs, id, 24, 4)
      [] g = "generate_false_wifi_signatures" -> generate_false_wifi_signatures(cs, id)
      [] g = "generate_cellular_tower_data" -> generate_cellular_tower_data(cs, id)
      [] g = "generate_false_identities_for_customer" ->
             generate_false_identities_for_customer(cs, id)
      [] g = "generate_encryption_key" -> generate_encryption_key(cs, id)
      [] g = "create_steganographic_message" ->
             create_steganographic_message(cs, "Test secure message", id, "business")
      [] g = "create_communication_noise" -> create_communication_noise(cs, id, 60)
      [] g = "create_secure_channel" -> create_secure_channel(cs, id)
      [] g = "generate_decoy_communications" -> generate_decoy_communications(cs, id, 50)
      [] g = "generate_face_variation_map_for_customer" ->
             generate_face_variation_map_for_customer(cs, id)
      [] g = "generate_gait_modification_pattern" ->
             generate_gait_modification_pattern(cs, id)
      [] g = "generate_keystroke_dynamics_variation" ->
             generate_keystroke_dynamics_variation(cs, id)
      [] g = "generate_voice_print_countermeasures" ->
             generate_voice_print_countermeasures(cs, id)
      [] g = "generate_multi_modal_countermeasures" ->
             generate_multi_modal_countermeasures(cs, id)

Generate(g, id) ==
    /\ last' = Completed(g, id, CallGenerator(g, customers, id))
    /\ UNCHANGED <<disk, customers, order, nUpdates, th>>

NextGen ==
    \/ \E id \in Ids : GetCustomerBiometricSettings(id)
    \/ \E id \in Ids : GetCustomerEncryptionSettings(id)
    \/ \E id \in Ids : GetNameStyle(id)
    \/ \E g \in Generators, id \in Ids : Generate(g, id)

SpecGen == InitGen /\ [][NextGen]_vars

-----------------------------------------------------------------------------
(* Properties of the composer *)

StoreLookups == {"get_customer", "get_customer_preferences"}

ComponentNames ==
    {"cobra_device", "location_obfuscation", "identity_multiplication",
     "communication_shield", "biometric_countermeasures"}

\* the component of a subsystem the customer can switch off, and its switch
ToggleOf ==
    [location_obfuscation |-> "location_obfuscation",
     communication_shield |-> "communication_encryption",
     biometric_countermeasures |-> "biometric_protection"]

IsProfileCall == last.op = "generate_customer_protection_profile"

\* C1: a profile asked for an id the store does not hold is the error-tagged
\* 'customer not found' result: nothing is raised, no generator or resolver is
\* called, nothing is sampled, and the result has no customer_info and no
\* protection_components entry.
C1_AbsentIdIsNotFound ==
    (IsProfileCall /\ last.id \notin DOMAIN customers) =>
        /\ ~last.raised
        /\ DOMAIN last.ret = {"error"}
        /\ last.ret.error = <<"Customer", last.id, "not found">>
        /\ \A i \in 1..Len(last.log) : last.log[i] \in StoreLookups
        /\ ~last.sampled

C1_Witness ==
    /\ IsProfileCall
    /\ last.id \notin DOMAIN customers
    /\ DOMAIN customers # {}

\* C2: a profile asked for an id the store holds is returned, not raised, and
\* its protection_components has exactly the five subsystem keys; a subsystem
\* whose toggle is stored false holds the disabled marker.
C2_PresentIdHasFiveComponents ==
    (IsProfileCall /\ last.id \in DOMAIN customers) =>
        /\ ~last.raised
        /\ DOMAIN last.ret.protection_components = ComponentNames
        /\ \A c \in DOMAIN ToggleOf :
               (/\ ToggleOf[c] \in DOMAIN customers[last.id]
                /\ ~customers[last.id][ToggleOf[c]])
               => last.ret.protection_components[c]
                      = [status |-> "disabled_per_customer_preference"]

-----------------------------------------------------------------------------
(* Properties of the store *)

\* the stored field each preference is read from
StoredField ==
    [privacy_level |-> "privacy_level",
     location_obfuscation |-> "location_obfuscation",
     identity_count |-> "identity_multiplication_count",
     device_types |-> "device_types",
     preferred_cities |-> "preferred_cities",
     encryption_enabled |-> "communication_encryption",
     biometric_protection |-> "biometric_protection",
     service_tier |-> "service_tier"]

\* the value a preference takes when the record does not store it
DocumentedDefault ==
    [privacy_level |-> "medium",
     location_obfuscation |-> TRUE,
     identity_count |-> 25,
     device_types |-> <<"smartphone">>,
     preferred_cities |-> <<"New York", "Los Angeles">>,
     encryption_enabled |-> TRUE,
     biometric_protection |-> TRUE,
     service_tier |-> "standard"]

\* C3: for an id the store holds, get_customer_preferences returns all eight
\* fields, each equal to the stored field when the record has it and to the
\* default otherwise.
C3_PreferencesFullyPopulated ==
    (last.op = "get_customer_preferences" /\ last.id \in DOMAIN customers) =>
        /\ ~last.raised
        /\ DOMAIN last.ret = DOMAIN StoredField
        /\ \A f \in DOMAIN StoredField :
               last.ret[f] = IF StoredField[f] \in DOMAIN customers[last.id]
                             THEN customers[last.id][StoredField[f]]
                             ELSE DocumentedDefault[f]

C3_Witness ==
    /\ last.op = "get_customer_preferences"
    /\ last.id \in DOMAIN customers
    /\ DOMAIN customers[last.id] = {"customer_id"}

\* C4: for an id the store does not hold, get_customer returns None and
\* get_customer_preferences returns the empty dict; neither raises and neither
\* changes the mapping or the file.
C4_AbsentLookupsAreTotal ==
    [][(/\ last'.op \in {"get_customer", "get_customer_preferences"}
        /\ last'.id \notin DOMAIN customers)
       => /\ ~last'.raised
          /\ last'.op = "get_customer" => ~last'.ret.found
          /\ last'.op = "get_customer_preferences" => DOMAIN last'.ret = {}
          /\ customers' = customers
          /\ order' = order
          /\ disk' = disk]_vars

C4_Witness ==
    /\ last.op \in {"get_customer", "get_customer_preferences"}
    /\ last.id \notin DOMAIN customers
    /\ DOMAIN customers # {}

\* C5: update_customer on an id the store holds merges: afterwards the record
\* has every field of `updates` at its new value and every other field at its
\* old value, and the record of every other id is unchanged.
C5_UpdateMerges ==
    [][(last'.op = "update_customer" /\ last'.id \in DOMAIN customers)
       => /\ DOMAIN customers' = DOMAIN customers
          /\ DOMAIN customers'[last'.id]
                 = DOMAIN customers[last'.id] \cup DOMAIN last'.updates
          /\ \A f \in DOMAIN last'.updates :
                 customers'[last'.id][f] = last'.updates[f]
          /\ \A f \in DOMAIN customers[last'.id] \ DOMAIN last'.updates :
                 customers'[last'.id][f] = customers[last'.id][f]
          /\ \A k \in DOMAIN customers \ {last'.id} : customers'[k] = customers[k]]_vars

C5_Witness ==
    /\ last.op = "update_customer"
    /\ last.id \in DOMAIN customers
    /\ DOMAIN customers[last.id] \ DOMAIN last.updates # {}
    /\ DOMAIN customers \ {last.id} # {}

\* C6: after an update_customer on a held id whose write succeeded, the file
\* holds the whole mapping: one entry per customer of the store, each with the
\* customer's current fields.
C6_SavedFileHoldsWholeMapping ==
    (last.op = "update_customer" /\ last.wrote) =>
        /\ disk.kind = "object"
        /\ Len(disk.customers) = Cardinality(DOMAIN customers)
        /\ \A k \in DOMAIN customers :
               \E i \in 1..Len(disk.customers) : disk.customers[i] = customers[k]

C6_Witness ==
    /\ last.op = "update_customer"
    /\ last.wrote
    /\ Cardinality(DOMAIN customers) > 1

\* C7: update_customer on an id the store does not hold does nothing: no
\* exception, no new record, no changed record, no write of the file.
C7_UpdateOfAbsentIdIsNoOp ==
    [][(last'.op = "update_customer" /\ last'.id \notin DOMAIN customers)
       => /\ ~last'.raised
          /\ ~last'.saved
          /\ customers' = customers
          /\ order' = order
          /\ disk' = disk]_vars

C7_Witness ==
    /\ last.op = "update_customer"
    /\ last.id \notin DOMAIN customers
    /\ DOMAIN customers # {}

\* the file cannot be loaded: it is missing, is not JSON, is JSON of the wrong
\* shape, or lists an entry without a customer id
Unloadable(d) ==
    \/ d.kind \in {"missing", "malformed", "array"}
    \/ /\ d.kind = "object"
       /\ \E i \in 1..Len(d.customers) : "customer_id" \notin DOMAIN d.customers[i]

\* C9: a store constructed over a file that cannot be loaded raises nothing,
\* holds no customer and stays usable: every get_customer returns None and
\* get_all_customers returns the empty list.
C9_UnloadableSourceGivesEmptyStore ==
    (last.op = "__init__" /\ Unloadable(disk)) =>
        /\ ~last.raised
        /\ last.warned
        /\ DOMAIN customers = {}
        /\ order = <<>>
        /\ \A id \in Ids : ~get_customer(customers, id).found
        /\ get_all_customers(customers, order) = <<>>

C9_Witness ==
    /\ last.op = "__init__"
    /\ disk.kind = "malformed"
    /\ nUpdates > 0

-----------------------------------------------------------------------------
(* Properties of the biometric settings resolver *)

\* the privacy tier the resolver works from
PrivacyTierOf(id) ==
    IF id \in DOMAIN customers /\ "privacy_level" \in DOMAIN customers[id]
    THEN customers[id]["privacy_level"]
    ELSE "medium"

\* C10: when biometric protection is enabled, the intensity is minimal for
\* tier low, standard for medium, aggressive for high, comprehensive for
\* maximum, and standard for every other tier value.
C10_TierToIntensity ==
    (last.op = "get_customer_biometric_settings" /\ last.ret.enabled) =>
        LET tier == PrivacyTierOf(last.id)
        IN  last.ret.intensity =
                CASE tier = "low" -> "minimal"
                  [] tier = "medium" -> "standard"
                  [] tier = "high" -> "aggressive"
                  [] tier = "maximum" -> "comprehensive"
                  [] OTHER -> "standard"

C10_Witness ==
    /\ last.op = "get_customer_biometric_settings"
    /\ last.ret.enabled
    /\ PrivacyTierOf(last.id) \notin {"low", "medium", "high", "maximum"}

-----------------------------------------------------------------------------
(* Properties of the settings resolvers *)

ResolverOps == {"get_customer_biometric_settings", "get_customer_encryption_settings"}

\* the service tier the resolvers work from
ServiceTierOf(id) ==
    IF id \in DOMAIN customers /\ "service_tier" \in DOMAIN customers[id]
    THEN customers[id]["service_tier"]
    ELSE "standard"

\* the order of the privacy tiers and of each resolver's four labels
TierRank == [low |-> 1, medium |-> 2, high |-> 3, maximum |-> 4]

LabelRank ==
    [get_customer_biometric_settings |->
         [minimal |-> 1, standard |-> 2, aggressive |-> 3, comprehensive |-> 4],
     get_customer_encryption_settings |->
         [basic |-> 1, standard |-> 2, high |-> 3, maximum |-> 4]]

\* a completed resolver call that found the subsystem enabled
IsEnabledResolution(l) == l.op \in ResolverOps /\ l.ret.enabled

LabelOf(l) ==
    IF l.op = "get_customer_biometric_settings" THEN l.ret.intensity ELSE l.ret.level

\* C11: an enabled resolution carries one of the resolver's four labels,
\* whatever the stored tiers are; and of two resolutions by the same resolver
\* for customers of the same service tier, the one for the higher privacy
\* tier (low < medium < high < maximum) never has the lower label.
C11_LabelsFixedAndMonotonic ==
    [][IsEnabledResolution(last') =>
          /\ LabelOf(last') \in DOMAIN LabelRank[last'.op]
          /\ (/\ IsEnabledResolution(last)
              /\ last.op = last'.op
              /\ ServiceTierOf(last.id) = ServiceTierOf(last'.id)
              /\ PrivacyTierOf(last.id) \in DOMAIN TierRank
              /\ PrivacyTierOf(last'.id) \in DOMAIN TierRank
              /\ TierRank[PrivacyTierOf(last.id)] <= TierRank[PrivacyTierOf(last'.id)])
             => LabelRank[last.op][LabelOf(last)]
                    <= LabelRank[last'.op][LabelOf(last')]]_vars

C11_Witness ==
    /\ IsEnabledResolution(last)
    /\ last.op = "get_customer_encryption_settings"
    /\ last.id = "CUST_002"
    /\ PrivacyTierOf("CUST_001") = "low"
    /\ PrivacyTierOf("CUST_002") = "high"
    /\ ServiceTierOf("CUST_001") = ServiceTierOf("CUST_002")
    /\ ServiceTierOf("CUST_002") # "enterprise"

\* the tiers that escalate
Escalated(id) == ServiceTierOf(id) = "enterprise" \/ PrivacyTierOf(id) = "maximum"

\* C12: for a customer of service tier enterprise or of privacy tier maximum,
\* the encryption level (encryption enabled) is maximum and the name style is
\* international, whatever the other tier is.
C12_EscalationYieldsTopLabel ==
    /\ (/\ last.op = "get_customer_encryption_settings"
        /\ last.ret.enabled
        /\ Escalated(last.id))
       => last.ret.level = "maximum"
    /\ (last.op = "get_name_style" /\ Escalated(last.id))
       => last.ret = "international"

C12_Witness ==
    /\ last.op = "get_name_style"
    /\ PrivacyTierOf(last.id) = "maximum"
    /\ ServiceTierOf(last.id) = "basic"

\* the device types the resolvers work from
DeviceTypesOf(id) ==
    IF id \in DOMAIN customers /\ "device_types" \in DOMAIN customers[id]
    THEN customers[id]["device_types"]
    ELSE <<"smartphone">>

\* the biometrics each device category exposes
BiometricTable ==
    [smartphone |-> {"facial_recognition", "fingerprint", "voice_print"},
     tablet |-> {"facial_recognition", "fingerprint", "voice_print"},
     laptop |-> {"facial_recognition", "keystroke_dynamics"},
     smartwatch |-> {"gait_analysis", "behavioral_patterns"}]

\* the union of the table entries of the categories of a list
TableUnion(device_types) ==
    UNION {BiometricTable[d] : d \in SeqToSet(device_types) \cap DOMAIN BiometricTable}

\* C13: the applicable biometrics of an enabled resolution are the union of
\* the table entries of the customer's device categories: each category
\* counts once wherever and however often it is listed, and a category that
\* is not in the table adds nothing and raises nothing.
C13_ApplicabilityIsTableUnion ==
    (last.op = "get_customer_biometric_settings" /\ last.ret.enabled) =>
        /\ ~last.raised
        /\ last.ret.applicable_biometrics = TableUnion(DeviceTypesOf(last.id))

C13_Witness ==
    /\ last.op = "get_customer_biometric_settings"
    /\ last.ret.enabled
    /\ DeviceTypesOf(last.id) = <<"smartphone", "laptop", "laptop">>
    /\ DeviceTypesOf("CUST_001") = DeviceTypesOf("CUST_002")

\* the preference each resolver reads as its toggle
ResolverToggle ==
    [get_customer_biometric_settings |-> "biometric_protection",
     get_customer_encryption_settings |-> "encryption_enabled"]

\* C14: a resolver called for a customer whose toggle for the subsystem is
\* false returns enabled = false and nothing else: no label, no applicable
\* biometrics, no other field.
C14_DisabledResolutionIsBare ==
    (/\ last.op \in ResolverOps
     /\ last.id \in DOMAIN customers
     /\ ~get_customer_preferences(customers, last.id)[ResolverToggle[last.op]])
    => /\ ~last.raised
       /\ DOMAIN last.ret = {"enabled"}
       /\ ~last.ret.enabled

C14_Witness ==
    /\ last.op = "get_customer_encryption_settings"
    /\ last.id \in DOMAIN customers
    /\ ~get_customer_preferences(customers, last.id)["encryption_enabled"]
    /\ Escalated(last.id)

-----------------------------------------------------------------------------
(* Properties of the generators *)

\* the preference each generator entry point of a toggled subsystem belongs to
GeneratorToggle ==
    [generate_false_gps_for_customer |-> "location_obfuscation",
     generate_location_trail |-> "location_obfuscation",
     generate_false_wifi_signatures |-> "location_obfuscation",
     generate_cellular_tower_data |-> "location_obfuscation",
     generate_encryption_key |-> "encryption_enabled",
     create_steganographic_message |-> "encryption_enabled",
     create_communication_noise |-> "encryption_enabled",
     create_secure_channel |-> "encryption_enabled",
     generate_decoy_communications |-> "encryption_enabled",
     generate_face_variation_map_for_customer |-> "biometric_protection",
     generate_gait_modification_pattern |-> "biometric_protection",
     generate_keystroke_dynamics_variation |-> "biometric_protection",
     generate_voice_print_countermeasures |-> "biometric_protection",
     generate_multi_modal_countermeasures |-> "biometric_protection"]

\* the generators whose result is a list, held in the model by its length
ListGenerators ==
    {"generate_false_wifi_signatures", "generate_cellular_tower_data",
     "generate_decoy_communications"}

\* the result l.ret of a completed call of l.op holds a marker and nothing else
OnlyMarker(l) ==
    IF l.op \in ListGenerators \cup {"generate_encryption_key"} THEN FALSE
    ELSE IF l.op = "generate_location_trail" THEN l.ret.disabled
    ELSE IF l.op = "create_communication_noise" THEN l.ret.refused
    ELSE DOMAIN l.ret = {"message"}

\* the last call is one of a generator whose subsystem the customer turned off
DisabledGeneratorCall ==
    /\ last.op \in DOMAIN GeneratorToggle
    /\ last.id \in DOMAIN customers
    /\ ~get_customer_preferences(customers, last.id)[GeneratorToggle[last.op]]

\* C16: every generator entry point of a subsystem the customer has turned
\* off returns the disabled sentinel: nothing is raised, nothing is sampled,
\* and the result holds a marker only (no error tag, no generated data).
C16_DisabledGeneratorReturnsSentinel ==
    DisabledGeneratorCall
    => /\ ~last.raised
       /\ ~last.sampled
       /\ OnlyMarker(last)

\* the operations of the Location Generator
LocationOperations ==
    {"generate_false_gps_for_customer", "generate_location_trail",
     "generate_false_wifi_signatures", "generate_cellular_tower_data",
     "get_customer_cities"}

\* the last call built a profile for a customer stored with the location
\* toggle false
ProfileWithLocationOff ==
    /\ IsProfileCall
    /\ last.id \in DOMAIN customers
    /\ "location_obfuscation" \in DOMAIN customers[last.id]
    /\ ~customers[last.id]["location_obfuscation"]

\* C17: a profile call for a customer stored with the location toggle false
\* enters no operation of the Location Generator, and the location entry of
\* the profile it builds is the disabled sentinel.
C17_LocationOffSkipsGenerator ==
    ProfileWithLocationOff
    => /\ SeqToSet(last.log) \cap LocationOperations = {}
       /\ ~last.raised
          => last.ret.protection_components.location_obfuscation
                 = [status |-> "disabled_per_customer_preference"]

C17_Witness ==
    /\ ProfileWithLocationOff
    /\ ~last.raised
    /\ last.sampled
    /\ "generate_false_signatures_for_customer" \in SeqToSet(last.log)

\* the biometric each modality generator protects against
ModalityOf ==
    [generate_face_variation_map_for_customer |-> "facial_recognition",
     generate_gait_modification_pattern |-> "gait_analysis",
     generate_keystroke_dynamics_variation |-> "keystroke_dynamics",
     generate_voice_print_countermeasures |-> "voice_print"]

\* biometric protection is on for the customer (on when nothing is stored)
BiometricOn(id) ==
    \/ id \notin DOMAIN customers
    \/ "biometric_protection" \notin DOMAIN customers[id]
    \/ customers[id]["biometric_protection"]

\* the last call is one of a modality generator for a customer with the
\* subsystem on whose devices do not expose the modality
InapplicableCall ==
    /\ last.op \in DOMAIN ModalityOf
    /\ BiometricOn(last.id)
    /\ ModalityOf[last.op] \notin TableUnion(DeviceTypesOf(last.id))

\* C18: with biometric protection on, a modality generator called for a
\* customer whose applicable biometrics do not hold its modality raises
\* nothing, samples nothing and returns the not-applicable sentinel: a
\* message, other than the disabled one, and no generated field.
C18_InapplicableModalityReturnsSentinel ==
    InapplicableCall
    => /\ ~last.raised
       /\ ~last.sampled
       /\ DOMAIN last.ret = {"message"}
       /\ last.ret # DisabledBiometric

C18_Witness ==
    /\ InapplicableCall
    /\ last.op = "generate_gait_modification_pattern"
    /\ last.id \in DOMAIN customers
    /\ DeviceTypesOf(last.id) = <<"laptop", "smartphone">>

\* the generators whose artifact has a volume, and the volume of the result
\* l.ret of a completed call: the numbers of entries, section by section
VolumeGenerators ==
    {"generate_false_signatures_for_customer", "create_noise_signatures",
     "generate_false_wifi_signatures", "generate_cellular_tower_data",
     "create_communication_noise", "generate_false_identities_for_customer",
     "generate_face_variation_map_for_customer",
     "generate_gait_modification_pattern"}

Volume(l) ==
    CASE l.op = "generate_false_signatures_for_customer" -> <<l.ret.signatures>>
      [] l.op \in {"create_noise_signatures", "generate_false_wifi_signatures",
                   "generate_cellular_tower_data"} -> <<l.ret>>
      [] l.op = "create_communication_noise" -> <<l.ret.packets>>
      [] l.op = "generate_false_identities_for_customer" ->
             <<Len(l.ret)>>
                 \o (IF Len(l.ret) > 0 THEN <<Cardinality(l.ret[1].keys)>> ELSE <<>>)
      [] l.op = "generate_face_variation_map_for_customer" ->
             IF "facial_landmarks" \in DOMAIN l.ret
             THEN <<l.ret.facial_landmarks, l.ret.lighting_adjustments,
                    l.ret.geometric_transforms, l.ret.texture_modifications,
                    l.ret.temporal_variations>>
             ELSE <<>>
      [] l.op = "generate_gait_modification_pattern" ->
             IF "keys" \in DOMAIN l.ret THEN <<Cardinality(l.ret.keys)>> ELSE <<>>

NeverSmaller(v, w) == Len(v) = Len(w) /\ \A i \in 1..Len(v) : v[i] <= w[i]

\* two stored customers whose records differ in the privacy tier at most
SameButTier(a, b) ==
    /\ a \in DOMAIN customers
    /\ b \in DOMAIN customers
    /\ [customers[a] EXCEPT !["customer_id"] = None, !["privacy_level"] = None]
           = [customers[b] EXCEPT !["customer_id"] = None, !["privacy_level"] = None]

\* the second of two calls of one generator is for the same inputs at a
\* privacy tier that is not lower
RaisedTier(l, m) ==
    /\ l.op \in VolumeGenerators
    /\ m.op = l.op
    /\ ~l.raised
    /\ ~m.raised
    /\ SameButTier(l.id, m.id)
    /\ PrivacyTierOf(l.id) \in DOMAIN TierRank
    /\ PrivacyTierOf(m.id) \in DOMAIN TierRank
    /\ TierRank[PrivacyTierOf(l.id)] <= TierRank[PrivacyTierOf(m.id)]

\* C19: of two calls of one generator for customers who differ in the privacy
\* tier only (low < medium < high < maximum), the one at the higher tier never
\* returns fewer device signatures, WiFi or tower entries, noise entries,
\* identity fields or entries of any section of the face variation map.
C19_VolumeNeverShrinks ==
    [][RaisedTier(last, last') => NeverSmaller(Volume(last), Volume(last'))]_vars

C19_Witness ==
    /\ last.op = "generate_cellular_tower_data"
    /\ ~last.raised
    /\ last.id = "CUST_002"
    /\ SameButTier("CUST_001", "CUST_002")
    /\ PrivacyTierOf("CUST_001") = "medium"
    /\ PrivacyTierOf("CUST_002") = "high"
    /\ last.ret = 8

\* the generators whose record gains detail with the level
DetailGenerators ==
    {"generate_false_identities_for_customer",
     "generate_face_variation_map_for_customer"}

\* the sections of the face variation map
FaceSections ==
    {"facial_landmarks", "lighting_adjustments", "geometric_transforms",
     "texture_modifications", "temporal_variations"}

\* the result l.ret is a generated record, not a sentinel or an empty list
IsGenerated(l) ==
    /\ l.op \in DetailGenerators
    /\ ~l.raised
    /\ IF l.op = "generate_false_identities_for_customer"
       THEN Len(l.ret) > 0
       ELSE "facial_landmarks" \in DOMAIN l.ret

\* the fields and sections of a generated record that hold something
Populated(l) ==
    IF l.op = "generate_false_identities_for_customer"
    THEN l.ret[1].keys
    ELSE {"customer_id", "intensity_level", "generation_timestamp"}
             \cup {s \in FaceSections : l.ret[s] > 0}

\* the second of two calls of one generator is for the same inputs one step
\* up the scale of privacy tiers
NextTier(l, m) ==
    /\ IsGenerated(l)
    /\ IsGenerated(m)
    /\ m.op = l.op
    /\ SameButTier(l.id, m.id)
    /\ PrivacyTierOf(l.id) \in DOMAIN TierRank
    /\ PrivacyTierOf(m.id) \in DOMAIN TierRank
    /\ TierRank[PrivacyTierOf(m.id)] = TierRank[PrivacyTierOf(l.id)] + 1

\* C20: of two records generated by the identity generator or by the face
\* variation generator for customers one step apart on the scale minimal,
\* standard, aggressive, comprehensive, the populated fields and sections of
\* the lower one are a strict subset of those of the higher one.
C20_DetailStrictlyIncreases ==
    [][NextTier(last, last')
          => /\ Populated(last) \subseteq Populated(last')
             /\ Populated(last) # Populated(last')]_vars

\* the generators whose result is a list of entries
EntryGenerators ==
    {"create_noise_signatures", "generate_location_trail",
     "generate_false_wifi_signatures", "generate_cellular_tower_data",
     "create_communication_noise", "generate_decoy_communications"}

\* the number of generated entries in the result l.ret of such a generator
Entries(l) ==
    IF l.op = "generate_location_trail"
    THEN (IF l.ret.disabled THEN 0 ELSE l.ret.points)
    ELSE IF l.op = "create_communication_noise"
    THEN (IF l.ret.refused THEN 0 ELSE l.ret.packets)
    ELSE l.ret

\* the last call returned a generated artifact: not a sentinel, not an
\* error-tagged record, not an empty list
ReturnedArtifact ==
    /\ last.op \in Generators
    /\ ~last.raised
    /\ IF last.op \in EntryGenerators THEN Entries(last) > 0
       ELSE IF last.op = "generate_false_identities_for_customer"
       THEN Len(last.ret) > 0
       ELSE IF last.op = "generate_encryption_key" THEN TRUE
       ELSE DOMAIN last.ret \cap {"message", "error"} = {}

\* the record that would carry the stamps: the artifact, its metadata, or
\* one entry of the list
StampedRecord(l) ==
    CASE l.op = "generate_false_signatures_for_customer" -> l.ret.metadata
      [] l.op = "create_noise_signatures" -> NoiseSignature
      [] l.op = "generate_location_trail" -> TrailPoint(l.id)
      [] l.op = "generate_false_wifi_signatures" -> WifiNetwork
      [] l.op = "generate_cellular_tower_data" -> Tower
      [] l.op = "create_communication_noise" -> NoisePacket(l.id)
      [] l.op = "generate_decoy_communications" -> DecoyMessage(l.id)
      [] l.op = "generate_false_identities_for_customer" -> l.ret[1]
      [] l.op = "generate_encryption_key" -> [key |-> l.ret]
      [] OTHER -> l.ret

\* the fields a label is stamped in, and the labels
LabelFields ==
    {"privacy_level", "intensity_level", "encryption_level", "complexity_level"}

Labels ==
    SeqToSet(PrivacyTiers)
    \cup {"minimal", "standard", "aggressive", "comprehensive", "basic", "detailed"}

\* C21: every generated artifact a generator returns for a customer carries
\* the customer's id in its customer_id field and, in a label field, the
\* privacy tier or the intensity label it was produced with.
C21_ArtifactsAreStamped ==
    ReturnedArtifact
    => /\ "customer_id" \in DOMAIN StampedRecord(last)
       /\ StampedRecord(last).customer_id = last.id
       /\ \E f \in LabelFields \cap DOMAIN StampedRecord(last) :
              StampedRecord(last)[f] \in Labels

\* C22: a profile asked for an id the store holds is returned and never
\* raised, whatever the stored record holds (no name, no preferred city, no
\* or unknown devices, unknown tiers, an identity count of 0).
C22_ProfileNeverRaises ==
    (IsProfileCall /\ last.id \in DOMAIN customers) => ~last.raised

\* how often the operation was entered during the call
Entered(log, operation) == Cardinality({i \in 1..Len(log) : log[i] = operation})

\* C23: during a profile call for an id the store holds, the customer's
\* preferences are resolved exactly once and each settings resolver is
\* entered at most once: no generator looks the preferences up or resolves
\* the settings again.
C23_PreferencesResolvedOnce ==
    (IsProfileCall /\ last.id \in DOMAIN customers /\ ~last.raised)
    => /\ Entered(last.log, "get_customer_preferences") = 1
       /\ \A r \in ResolverOps : Entered(last.log, r) <= 1

\* C24: rendering the report of a profile enters no generator, no resolver
\* and not the composer, and samples nothing.
C24_ReportIsPureProjection ==
    last.op = "generate_privacy_report"
    => /\ ~last.sampled
       /\ SeqToSet(last.log)
              \cap (Generators \cup ResolverOps
                    \cup {"generate_customer_protection_profile"}) = {}

-----------------------------------------------------------------------------
(* Properties of the store's mapping *)

\* C25: once a store is loaded, no call on it, a look-up, a listing, a
\* filter, an update, a resolver, the composer or the report, removes an id
\* from its mapping or adds one: the set of ids stays the set loaded.
C25_IdsAreNeverDeletedOrAdded ==
    [][last'.op # "__init__" => DOMAIN customers' = DOMAIN customers]_vars

C25_Witness ==
    /\ last.op = "update_customer"
    /\ nUpdates = MaxUpdates
    /\ last.id \notin DOMAIN customers
    /\ Cardinality(DOMAIN customers) = 2

\* what a caller does to the preferences returned to it
CallerModifications ==
    {"append_to_preferences", "pop_from_preferences", "assign_to_preferences"}

\* C26: the preferences returned for a customer are the caller's: assigning
\* to them, appending to or removing from their device_types or
\* preferred_cities list leaves every stored record as it was.
C26_PreferencesAreCallerOwned ==
    [][last'.op \in CallerModifications => customers' = customers]_vars

\* C27: every record of the mapping is stored under its own customer_id,
\* after the load and after every update, one whose fields hold a
\* customer_id included.
C27_KeyIsRecordId ==
    \A k \in DOMAIN customers :
        "customer_id" \in DOMAIN customers[k] /\ customers[k]["customer_id"] = k

\* C28: after an update that wrote the file, a new store loaded from the
\* file holds the mapping of the store that wrote it: the same ids and the
\* same record under each id.
C28_WriteThenLoadRoundTrip ==
    (last.op = "update_customer" /\ last.wrote)
    => CustomerDataLoader(disk).customers = customers

\* the file d holds the mapping cs: one entry per customer, with its fields
FileHoldsMapping(d, cs) ==
    /\ d.kind = "object"
    /\ Len(d.customers) = Cardinality(DOMAIN cs)
    /\ \A k \in DOMAIN cs : \E i \in 1..Len(d.customers) : d.customers[i] = cs[k]

\* the last call was an update of a held id whose write of the file failed
FailedPersist(l) == l.op = "update_customer" /\ l.saved /\ ~l.wrote

CallForAbsentId ==
    /\ last.op \in ResolverOps \cup Generators
    /\ last.id \notin DOMAIN customers

\* C30: a resolver or a generator called with an id the store does not hold
\* raises nothing and answers as for a customer with every preference at its
\* default: biometric settings enabled, 'standard', for the biometrics of a
\* smartphone; encryption settings enabled at level 'standard'; 25 device
\* signatures; 25 identities.
C30_AbsentIdGetsDefaults ==
    CallForAbsentId
    => /\ ~last.raised
       /\ last.op = "get_customer_biometric_settings"
              => /\ last.ret.enabled
                 /\ last.ret.intensity = "standard"
                 /\ last.ret.applicable_biometrics
                        = {"facial_recognition", "fingerprint", "voice_print"}
       /\ last.op = "get_customer_encryption_settings"
              => /\ last.ret.enabled
                 /\ last.ret.level = "standard"
       /\ last.op = "generate_false_signatures_for_customer"
              => last.ret.signatures = 25
       /\ last.op = "generate_false_identities_for_customer"
              => Len(last.ret) = 25

C30_Witness ==
    /\ CallForAbsentId
    /\ last.op = "generate_false_signatures_for_customer"
    /\ last.sampled
    /\ DOMAIN customers # {}
    /\ \A k \in DOMAIN customers : ~customers[k]["biometric_protection"]

-----------------------------------------------------------------------------
(* Properties of concurrent updates *)

AllDone == \A t \in ThreadIds : th[t].pc = "done"

\* the place of a customer's record in the written list
PlaceOf(id) == CHOOSE i \in 1..Len(order) : order[i] = id

\* C8: once two concurrent update_customer calls have both completed, the
\* file holds the merged fields of both: for each call on a held id, the
\* customer's record in the file has every updated field at the value the
\* store has for it.
C8_NoLostUpdate ==
    AllDone =>
        \A t \in ThreadIds :
            th[t].id \in DOMAIN customers =>
                /\ disk.kind = "object"
                /\ Len(disk.customers) = Len(order)
                /\ \A f \in DOMAIN th[t].updates :
                       /\ f \in DOMAIN disk.customers[PlaceOf(th[t].id)]
                       /\ disk.customers[PlaceOf(th[t].id)][f]
                              = customers[th[t].id][f]

====
